---- MODULE Spec2Model ----
(***************************************************************************)
(* Model of pages/4_Vendor_OTIF.py: the Streamlit page that turns order    *)
(* lines into PO-level In-Full / On-Time / OTIF verdicts.                  *)
(*                                                                         *)
(* A table (pandas DataFrame) is a sequence of records, one per row, in    *)
(* row order.  A missing cell (NaN / NaT / None) is the value NaN.         *)
(* Strings that the code trims or re-cases are sequences of one-character  *)
(* strings; labels that are only compared for equality are plain strings.  *)
(* Dates are day ordinals counted from 2023-01-01 (ordinal 0).             *)
(* Means and percentages are exact fractions num / den of the integers the *)
(* code divides; the float64 the code stores is that quotient rounded.      *)
(***************************************************************************)
EXTENDS Integers, Sequences, FiniteSets, TLC

VARIABLES
    pc,                \* position of the script run
    file,              \* the uploaded sheet held in session state
    df_raw,            \* the table load_and_clean returned
    selected_types,    \* the material types ticked in the sidebar
    df,                \* the working table of order lines
    df_line,           \* first result of compute_po_level_metrics
    df_po,             \* second result: the PO-level table
    lead_time_rules,   \* upper-cased material type -> lead time in days
    lt_input,          \* label -> value of the sidebar widget "lt_<label>"
    notice,            \* what st.error / st.warning / st.info has shown
    df_columns,        \* the header row after standardize_column_names
    selected_year,     \* the year chosen in the selectbox
    po_year,           \* the PO rows of the selected year
    monthly,           \* the monthly summary
    vendor_stats,      \* the vendor summary
    breaches,          \* the PO rows of the selected year with OTIF = 0
    top10,             \* the top-10 breach table
    report,            \* the failed-orders download that was offered
    data_file_loaded,  \* session_state["data_file_loaded"]
    uploader_offered   \* whether this run rendered st.file_uploader

vars == <<pc, file, df_columns, df_raw, selected_types, df, df_line, df_po, lead_time_rules, lt_input, notice, selected_year, po_year, monthly, vendor_stats, breaches, top10, report, data_file_loaded, uploader_offered>>

NaN == "NaN"

\* ---------------------------------------------------------------- bounds
MaxLines == 2

\* the most POs of a table handed to the summaries
MaxPos == 4

\* ---------------------------------------------------------------- helpers
\* the values of a column or list
Range(s) == {s[i] : i \in DOMAIN s}

RECURSIVE SetSum(_, _)
SetSum(f, S) ==
    IF S = {} THEN 0
    ELSE LET i == CHOOSE j \in S : TRUE IN f[i] + SetSum(f, S \ {i})

SetMax(S) == CHOOSE x \in S : \A y \in S : y <= x
SetMin(S) == CHOOSE x \in S : \A y \in S : x <= y

\* ---------------------------------------------------------------- calendar
\* the calendar years of the model; ordinal 0 is 1 January of the first
Years == 2023..2025

IsLeap(y) == (y % 4 = 0 /\ y % 100 # 0) \/ y % 400 = 0

DaysInMonth(y, m) ==
    IF m = 2 THEN (IF IsLeap(y) THEN 29 ELSE 28)
    ELSE IF m \in {4, 6, 9, 11} THEN 30 ELSE 31

DaysInYear(y) == IF IsLeap(y) THEN 366 ELSE 365

\* ordinal of the calendar day y-m-d
Date(y, m, d) ==
    SetSum([yy \in Years |-> DaysInYear(yy)], {yy \in Years : yy < y})
    + SetSum([mm \in 1..12 |-> DaysInMonth(y, mm)], 1..(m - 1))
    + (d - 1)

\* .dt.year of an ordinal
YearOf(n) ==
    CHOOSE y \in Years : Date(y, 1, 1) <= n /\ n < Date(y, 1, 1) + DaysInYear(y)

\* .dt.month of an ordinal
MonthNumOf(n) ==
    LET y == YearOf(n)
    IN CHOOSE m \in 1..12 : Date(y, m, 1) <= n /\ n < Date(y, m, 1) + DaysInMonth(y, m)

MonthAbbr == <<"Jan", "Feb", "Mar", "Apr", "May", "Jun",
               "Jul", "Aug", "Sep", "Oct", "Nov", "Dec">>

\* .dt.strftime("%b") of an ordinal
MonthOf(n) == MonthAbbr[MonthNumOf(n)]

\* ---------------------------------------------------------------- strings
\* A text cell is a sequence of characters; a missing text cell is the
\* one-element sequence NoText, which str() turns into the text "nan".
NoText == <<NaN>>

\* an optional number (a lead time may be np.nan)
NoValue == <<>>
Some(x) == <<x>>

Whitespace == {" ", "\t", "NBSP"}

LowerLetters == <<"a", "b", "c", "d", "e", "f", "g", "h", "i", "j", "k", "l", "m", "n", "o", "p", "q", "r", "s", "t", "u", "v", "w", "x", "y", "z">>
UpperLetters == <<"A", "B", "C", "D", "E", "F", "G", "H", "I", "J", "K", "L", "M", "N", "O", "P", "Q", "R", "S", "T", "U", "V", "W", "X", "Y", "Z">>

ToUpper(c) ==
    IF \E i \in 1..26 : LowerLetters[i] = c
    THEN UpperLetters[CHOOSE i \in 1..26 : LowerLetters[i] = c] ELSE c
ToLower(c) ==
    IF \E i \in 1..26 : UpperLetters[i] = c
    THEN LowerLetters[CHOOSE i \in 1..26 : UpperLetters[i] = c] ELSE c

\* str.upper(), str.lower()
Upper(s) == [i \in DOMAIN s |-> ToUpper(s[i])]
Lower(s) == [i \in DOMAIN s |-> ToLower(s[i])]

\* str.strip()
RECURSIVE LStrip(_)
LStrip(s) == IF s # <<>> /\ Head(s) \in Whitespace THEN LStrip(Tail(s)) ELSE s
RECURSIVE RStrip(_)
RStrip(s) ==
    IF s # <<>> /\ s[Len(s)] \in Whitespace THEN RStrip(SubSeq(s, 1, Len(s) - 1)) ELSE s
Strip(s) == RStrip(LStrip(s))

\* str(cell)
Str(cell) == IF cell = NoText THEN <<"n", "a", "n">> ELSE cell

\* ---------------------------------------------------------------- sorting
\* the characters of the model in code-point order
CodePoints ==
    <<"\t", " ", "#", "-", ".", "0", "1", "2", "3", "4", "5", "6", "7",
      "8", "9", "A", "B", "C", "D", "E", "F", "G", "H", "I", "J", "K",
      "L", "M", "N", "O", "P", "Q", "R", "S", "T", "U", "V", "W", "X",
      "Y", "Z", "_", "a", "b", "c", "d", "e", "f", "g", "h", "i", "j",
      "k", "l", "m", "n", "o", "p", "q", "r", "s", "t", "u", "v", "w",
      "x", "y", "z", "NBSP">>

Code(c) == CHOOSE i \in DOMAIN CodePoints : CodePoints[i] = c

\* Python's str <
RECURSIVE StrLess(_, _)
StrLess(a, b) ==
    IF b = <<>> THEN FALSE
    ELSE IF a = <<>> THEN TRUE
    ELSE IF Head(a) = Head(b) THEN StrLess(Tail(a), Tail(b))
    ELSE Code(Head(a)) < Code(Head(b))

\* sorted(S) for a set of strings
RECURSIVE Sorted(_)
Sorted(S) ==
    IF S = {} THEN <<>>
    ELSE LET m == CHOOSE x \in S : \A y \in S \ {x} : StrLess(x, y)
         IN <<m>> \o Sorted(S \ {m})

\* ---------------------------------------------------------------- columns
COL_MAT_TYPE == <<"M", "a", "t", " ", "T", "y", "p", "e">>
COL_MATERIAL_CODE == <<"M", "a", "t", "e", "r", "i", "a", "l", " ", "C", "o", "d", "e">>
COL_MATERIAL_NAME == <<"M", "a", "t", "e", "r", "i", "a", "l", " ", "N", "a", "m", "e">>
COL_UOM == <<"U", "O", "M">>
COL_PO_DT == <<"P", ".", "O", ".", " ", "D", "t", ".">>
COL_PO_NO == <<"P", ".", " ", "O", ".", " ", "N", "o", ".">>
COL_SUPPLIER == <<"S", "u", "p", "p", "l", "i", "e", "r">>
COL_PO_QTY == <<"P", "O", " ", "Q", "t", "y", ".">>
COL_GNR_DT == <<"G", "N", "R", " ", "D", "t", ".">>
COL_INWARD_QTY == <<"I", "n", "w", "a", "r", "d", " ", "Q", "t", "y", ".">>
COL_ITEM_CAT == <<"I", "t", "e", "m", " ", "C", "a", "t", "e", "g", "o", "r", "y">>

REQUIRED_COLS ==
    <<COL_MAT_TYPE, COL_MATERIAL_CODE, COL_MATERIAL_NAME, COL_UOM, COL_PO_DT,
      COL_PO_NO, COL_SUPPLIER, COL_PO_QTY, COL_GNR_DT, COL_INWARD_QTY>>

Digits == {"0", "1", "2", "3", "4", "5", "6", "7", "8", "9"}
IsAlnum(c) == c \in Range(LowerLetters) \cup Range(UpperLetters) \cup Digits

\* re.sub(NBSP, ' ', s)
NbspToSpace(s) == [i \in DOMAIN s |-> IF s[i] = "NBSP" THEN " " ELSE s[i]]

\* re.sub(r'\s+', ' ', s): every run of whitespace becomes one space
RECURSIVE CollapseSpaces(_)
CollapseSpaces(s) ==
    IF s = <<>> THEN <<>>
    ELSE IF Head(s) \in Whitespace
         THEN IF Len(s) > 1 /\ s[2] \in Whitespace
              THEN CollapseSpaces(Tail(s))
              ELSE <<" ">> \o CollapseSpaces(Tail(s))
         ELSE <<Head(s)>> \o CollapseSpaces(Tail(s))

\* re.sub(r'[^A-Za-z0-9]', '', s)
AlnumOnly(s) == SelectSeq(s, IsAlnum)

\* line 103-105: the cleaned header
CleanHeader(col) == Strip(CollapseSpaces(NbspToSpace(Strip(col))))

\* line 106: the comparison key
HeaderKeyCaseSensitive(col) == AlnumOnly(CleanHeader(col))
HeaderKey(col) == Lower(AlnumOnly(CleanHeader(col)))

\* lines 108-129: the synonym sets, in the order the code tests them
Synonyms ==
    <<
     [name |-> COL_MAT_TYPE, keys |-> {<<"m", "a", "t", "t", "y", "p", "e">>, <<"m", "a", "t", "e", "r", "i", "a", "l", "t", "y", "p", "e">>}],
     [name |-> COL_MATERIAL_CODE, keys |-> {<<"m", "a", "t", "e", "r", "i", "a", "l", "c", "o", "d", "e">>, <<"m", "a", "t", "c", "o", "d", "e">>, <<"m", "a", "t", "e", "r", "i", "a", "l", "_", "c", "o", "d", "e">>}],
     [name |-> COL_MATERIAL_NAME, keys |-> {<<"m", "a", "t", "e", "r", "i", "a", "l", "n", "a", "m", "e">>, <<"i", "t", "e", "m", "n", "a", "m", "e">>, <<"m", "a", "t", "e", "r", "i", "a", "l">>}],
     [name |-> COL_UOM, keys |-> {<<"u", "o", "m">>}],
     [name |-> COL_PO_DT, keys |-> {<<"p", "o", "d", "t">>, <<"p", "o", "d", "a", "t">>, <<"p", "o", "d", "a", "t", "e">>}],
     [name |-> COL_PO_NO, keys |-> {<<"p", "o", "n", "o">>, <<"p", "o", "n", "u", "m", "b", "e", "r">>, <<"p", "o">>}],
     [name |-> COL_SUPPLIER, keys |-> {<<"s", "u", "p", "p", "l", "i", "e", "r">>, <<"s", "u", "p", "p", "l", "i", "e", "r", "n", "a", "m", "e">>}],
     [name |-> COL_PO_QTY, keys |-> {<<"p", "o", "q", "t", "y">>, <<"p", "u", "r", "c", "h", "a", "s", "e", "o", "r", "d", "e", "r", "q", "t", "y">>, <<"q", "u", "a", "n", "t", "i", "t", "y", "o", "r", "d", "e", "r", "e", "d">>, <<"q", "u", "a", "n", "t", "i", "t", "y">>}],
     [name |-> COL_GNR_DT, keys |-> {<<"g", "n", "r", "d", "t">>, <<"g", "r", "n", "d", "t">>, <<"g", "r", "n", "d", "a", "t", "e">>, <<"g", "r", "n">>}],
     [name |-> COL_INWARD_QTY, keys |-> {<<"i", "n", "w", "a", "r", "d", "q", "t", "y">>, <<"i", "n", "w", "a", "r", "d", "q", "u", "a", "n", "t", "i", "t", "y">>, <<"r", "e", "c", "e", "i", "v", "e", "d", "q", "t", "y">>, <<"r", "e", "c", "e", "i", "v", "e", "d", "q", "u", "a", "n", "t", "i", "t", "y">>}],
     [name |-> COL_ITEM_CAT, keys |-> {<<"i", "t", "e", "m", "c", "a", "t", "e", "g", "o", "r", "y">>, <<"i", "t", "e", "m", "c", "a", "t">>, <<"c", "a", "t", "e", "g", "o", "r", "y">>}]
    >>

\* standardize_column_names.canon: the canonical name of the first synonym
\* set that holds the key, else the header as it was given
canonCleaned(col) ==
    LET k == HeaderKey(col)
        hits == {i \in DOMAIN Synonyms : k \in Synonyms[i].keys}
    IN IF hits # {} THEN Synonyms[SetMin(hits)].name ELSE CleanHeader(col)
canon(col) ==
    LET k == HeaderKey(col)
        hits == {i \in DOMAIN Synonyms : k \in Synonyms[i].keys}
    IN IF hits # {} THEN Synonyms[SetMin(hits)].name ELSE col

\* line 132: the renamed header row
standardize_column_names(columns) == [i \in DOMAIN columns |-> canon(columns[i])]

\* line 154: the required columns that the renamed header row lacks
MissingColsByCount(columns) ==
    IF Len(columns) >= Len(REQUIRED_COLS) THEN <<>> ELSE REQUIRED_COLS
MissingCols(columns) ==
    SelectSeq(REQUIRED_COLS, LAMBDA c : c \notin Range(standardize_column_names(columns)))

\* ---------------------------------------------------------------- lead-time rules
DEFAULT_RULES == (<<"R", "M">> :> 30) @@ (<<"S", "P", "M">> :> 15) @@ (<<"T", "P", "M">> :> 15)
DEFAULT_PPM_LT == 30

\* the dict in insertion order: the code iterates it with .items()
PPM_CATEGORY_MAP_Overlap ==
    <<
     [lt |-> 7, cats |-> <<
        <<"V", "i", "a", "l">>,
        <<"R", "u", "b", "b", "e", "r", " ", "S", "t", "o", "p", "p", "e", "r">>,
        <<"R", "u", "b", "b", "e", "r">>,
        <<"S", "t", "o", "p", "p", "e", "r">>,
        <<"S", "e", "a", "l">>,
        <<"C", "a", "p">>,
        <<"C", "o", "l", "l", "a", "r">>,
        <<"I", "n", "n", "e", "r", " ", "C", "a", "p">>,
        <<"O", "u", "t", "e", "r", " ", "C", "a", "p">>>>],
     [lt |-> 12, cats |-> <<
        <<"A", "m", "p", "o", "u", "l", "e">>,
        <<"A", "m", "p">>,
        <<"v", "i", "a", "l">>>>],
     [lt |-> 90, cats |-> <<
        <<"P", "f", "s", " ", "S", "y", "r", "i", "n", "g", "e">>,
        <<"P", "l", "u", "n", "g", "e", "r", " ", "S", "t", "o", "p", "p", "e", "r">>,
        <<"P", "l", "u", "n", "g", "e", "r">>,
        <<"U", " ", "p", "l", "u", "g">>,
        <<"U", "-", "p", "l", "u", "g">>>>],
     [lt |-> 15, cats |-> <<
        <<"A", "l", " ", "T", "u", "b", "e">>,
        <<"P", "l", "a", "s", "t", "i", "c", " ", "B", "o", "t", "t", "l", "e">>,
        <<"P", "l", "a", "s", "t", "i", "c", " ", "N", "o", "z", "z", "l", "e">>,
        <<"N", "o", "z", "z", "l", "e">>>>]
    >>
PPM_CATEGORY_MAP ==
    <<
     [lt |-> 7, cats |-> <<
        <<"V", "i", "a", "l">>,
        <<"R", "u", "b", "b", "e", "r", " ", "S", "t", "o", "p", "p", "e", "r">>,
        <<"R", "u", "b", "b", "e", "r">>,
        <<"S", "t", "o", "p", "p", "e", "r">>,
        <<"S", "e", "a", "l">>,
        <<"C", "a", "p">>,
        <<"C", "o", "l", "l", "a", "r">>,
        <<"I", "n", "n", "e", "r", " ", "C", "a", "p">>,
        <<"O", "u", "t", "e", "r", " ", "C", "a", "p">>>>],
     [lt |-> 12, cats |-> <<
        <<"A", "m", "p", "o", "u", "l", "e">>,
        <<"A", "m", "p">>>>],
     [lt |-> 90, cats |-> <<
        <<"P", "f", "s", " ", "S", "y", "r", "i", "n", "g", "e">>,
        <<"P", "l", "u", "n", "g", "e", "r", " ", "S", "t", "o", "p", "p", "e", "r">>,
        <<"P", "l", "u", "n", "g", "e", "r">>,
        <<"U", " ", "p", "l", "u", "g">>,
        <<"U", "-", "p", "l", "u", "g">>>>],
     [lt |-> 15, cats |-> <<
        <<"A", "l", " ", "T", "u", "b", "e">>,
        <<"P", "l", "a", "s", "t", "i", "c", " ", "B", "o", "t", "t", "l", "e">>,
        <<"P", "l", "a", "s", "t", "i", "c", " ", "N", "o", "z", "z", "l", "e">>,
        <<"N", "o", "z", "z", "l", "e">>>>]
    >>

PPM == <<"P", "P", "M">>

\* line 144: low in [c.lower() for c in cats]
InBucketCaseSensitive(low, cats) == low \in Range(cats)
InBucket(low, cats) == low \in {Lower(c) : c \in Range(cats)}

\* lines 139-146: the PPM branch; item_cat is the cell of the row
PpmLeadTime(item_cat) ==
    LET cat == Strip(Str(item_cat))
        low == Lower(cat)
        hits == {i \in DOMAIN PPM_CATEGORY_MAP : InBucket(low, PPM_CATEGORY_MAP[i].cats)}
    IN IF cat # <<>> /\ hits # {}
       THEN PPM_CATEGORY_MAP[SetMin(hits)].lt
       ELSE DEFAULT_PPM_LT

\* a variant that tries the PPM buckets before the rule set
PpmBeforeRules(row, rules) ==
    LET mat_type == Upper(Strip(Str(row.mat_type)))
    IN IF mat_type = PPM THEN Some(PpmLeadTime(row.item_cat))
       ELSE IF mat_type \in DOMAIN rules THEN Some(rules[mat_type])
       ELSE NoValue
compute_lead_time_for_row(row, rules) ==
    LET mat_type == Upper(Strip(Str(row.mat_type)))
    IN IF mat_type \in DOMAIN rules THEN Some(rules[mat_type])
       ELSE IF mat_type = PPM THEN Some(PpmLeadTime(row.item_cat))
       ELSE NoValue

\* ---------------------------------------------------------------- compute_po_level_metrics
\* groupby keys: pandas drops every group whose key holds a missing value
PoItemKeys(d) ==
    {<<d[i].po_no, d[i].material_code>> : i \in {j \in DOMAIN d :
        d[j].po_no # NaN /\ d[j].material_code # NaN}}

PoKeys(d) == {d[i].po_no : i \in {j \in DOMAIN d : d[j].po_no # NaN}}

\* inward >= 0.95 * ordered.  The quantities are integers here; the double
\* 0.95 lies just below 19/20 and the product rounds to at most the exact
\* value, so on integers the float comparison is 20 * inward >= 19 * ordered.
Fulfilled(inward_qty, po_qty) == IF 20 * inward_qty >= 19 * po_qty THEN 1 ELSE 0

\* df.groupby([PO, Material Code]).agg(sum) with the Fulfilled column
PoItem(d) ==
    [k \in PoItemKeys(d) |->
        LET S == {i \in DOMAIN d : d[i].po_no = k[1] /\ d[i].material_code = k[2]}
            po_qty == SetSum([i \in DOMAIN d |-> d[i].po_qty], S)
            inward_qty == SetSum([i \in DOMAIN d |-> d[i].inward_qty], S)
        IN [po_qty |-> po_qty, inward_qty |-> inward_qty,
            Fulfilled |-> Fulfilled(inward_qty, po_qty)]]

\* df_po_item.groupby(PO)["Fulfilled"].min()
PoStatus(d) ==
    LET item == PoItem(d)
    IN [p \in {k[1] : k \in DOMAIN item} |->
            SetMin({item[k].Fulfilled : k \in {kk \in DOMAIN item : kk[1] = p}})]

\* one line of po_ontime: GRN date <= PO date + that line's lead time; a
\* missing lead time gives the due date NaT, and GRN date <= NaT is False
LineOnTime(r) == r.lead_time # NoValue /\ r.gnr_dt <= r.po_dt + r.lead_time[1]

\* df_line.groupby(PO).apply(po_ontime)
PoOnTimeFirstLead(d) ==
    [p \in PoKeys(d) |->
        LET S == {i \in DOMAIN d : d[i].po_no = p}
            first == d[SetMin(S)]
        IN IF \A i \in S : d[i].gnr_dt <= d[i].po_dt + first.lead_time[1] THEN 1 ELSE 0]
PoOnTime(d) ==
    [p \in PoKeys(d) |->
        IF \A i \in {j \in DOMAIN d : d[j].po_no = p} : LineOnTime(d[i]) THEN 1 ELSE 0]

\* left merge of a per-PO column: a PO without a group gets a missing value
Lookup(f, p) == IF p \in DOMAIN f THEN f[p] ELSE NaN

\* drop_duplicates(subset=[PO]): the indices of the first row of each PO
\* value; missing PO numbers count as one value
KeepAllRows(d) == DOMAIN d
DropDuplicatesKeepLast(d) ==
    {i \in DOMAIN d : \A j \in (i + 1)..Len(d) : d[j].po_no # d[i].po_no}
DropDuplicates(d) == {i \in DOMAIN d : \A j \in 1..(i - 1) : d[j].po_no # d[i].po_no}

\* the sub-sequence of d at the indices S, in row order
RECURSIVE SubTable(_, _)
SubTable(d, S) ==
    IF S = {} THEN <<>>
    ELSE LET i == SetMin(S) IN <<d[i]>> \o SubTable(d, S \ {i})

\* PO_Fulfilled.astype(int) * OnTime.astype(int)
OTIFOr(po_fulfilled, on_time) == IF po_fulfilled + on_time >= 1 THEN 1 ELSE 0
OTIF(po_fulfilled, on_time) == po_fulfilled * on_time

\* df.groupby(PO)[GRN date].max()
PoFirstGrn(d) ==
    [p \in PoKeys(d) |-> d[SetMin({i \in DOMAIN d : d[i].po_no = p})].gnr_dt]
PoLastGrn(d) ==
    [p \in PoKeys(d) |-> SetMax({d[i].gnr_dt : i \in {j \in DOMAIN d : d[j].po_no = p}})]

\* df_line after both left merges
DfLine(d) ==
    [i \in DOMAIN d |->
        [line |-> d[i],
         PO_Fulfilled |-> Lookup(PoStatus(d), d[i].po_no),
         OnTime |-> Lookup(PoOnTime(d), d[i].po_no)]]

\* astype(int) raises on a column that holds a missing value: a row of the
\* collapsed table whose PO number has no group in df_po_status or in
\* po_ontime_df
MetricsRaises(d) ==
    \E i \in DropDuplicates(d) :
        d[i].po_no \notin DOMAIN PoStatus(d) \/ d[i].po_no \notin DOMAIN PoOnTime(d)

\* one row of df_po: the first line of the PO with the verdicts, the
\* bucketing date and its parts
PoRow(d, l) ==
    LET grn == Lookup(PoLastGrn(d), l.line.po_no)
    IN [po_no |-> l.line.po_no,
        supplier |-> l.line.supplier,
        material_code |-> l.line.material_code,
        PO_Fulfilled |-> l.PO_Fulfilled,
        OnTime |-> l.OnTime,
        OTIF |-> OTIF(l.PO_Fulfilled, l.OnTime),
        gnr_dt |-> grn,
        Year |-> YearOf(grn),
        MonthNum |-> MonthNumOf(grn),
        Month |-> MonthOf(grn)]

DfPo(d) ==
    LET first == SubTable(DfLine(d), DropDuplicates(d))
    IN [i \in DOMAIN first |-> PoRow(d, first[i])]

\* ---------------------------------------------------------------- reference table
\* df1 (line 50): material code -> item category, 1929 rows in the source.
\* The rows kept here are its first row (a code that occurs once), two of
\* the 61 rows of code 4BT008G (a code that occurs many times) and a row of
\* another category.
df1 ==
    <<[material_code |-> "4AO005", item_cat |-> <<"S", "e", "a", "l">>],
      [material_code |-> "4BT008G", item_cat |-> <<"S", "e", "a", "l">>],
      [material_code |-> "4BT008G", item_cat |-> <<"S", "e", "a", "l">>],
      [material_code |-> "2CA07-P", item_cat |-> <<"A", "m", "p", "o", "u", "l", "e">>],
      [material_code |-> "7PBB04-C", item_cat |-> <<"O", "u", "t", "e", "r", " ", "c", "a", "p">>],
      [material_code |-> "7PBB04-C", item_cat |-> <<"P", "l", "u", "n", "g", "e", "r", " ", "R", "o", "d">>]>>

\* ---------------------------------------------------------------- pipeline stages
\* a raw date or number cell: a parseable value, an unparseable text or an
\* empty cell
Value(v) == [kind |-> "value", v |-> v]
BadText == [kind |-> "text", v |-> 0]
Empty == [kind |-> "missing", v |-> 0]

\* pd.to_datetime / pd.to_numeric with errors="coerce"
CoerceTextAsZero(cell) == IF cell.kind = "missing" THEN NoValue ELSE Some(cell.v)
Coerce(cell) == IF cell.kind = "value" THEN Some(cell.v) ELSE NoValue

\* line 158-159: the required columns and the item category when present
HasItemCat(columns) == COL_ITEM_CAT \in Range(standardize_column_names(columns))

SelectCols(r, with_cat) ==
    IF with_cat
    THEN [mat_type |-> r.mat_type, material_code |-> r.material_code, po_no |-> r.po_no,
          supplier |-> r.supplier, po_dt |-> r.po_dt, gnr_dt |-> r.gnr_dt,
          po_qty |-> r.po_qty, inward_qty |-> r.inward_qty, item_cat |-> r.item_cat]
    ELSE [mat_type |-> r.mat_type, material_code |-> r.material_code, po_no |-> r.po_no,
          supplier |-> r.supplier, po_dt |-> r.po_dt, gnr_dt |-> r.gnr_dt,
          po_qty |-> r.po_qty, inward_qty |-> r.inward_qty]

\* line 325: sorted(df_raw[Mat Type].dropna().astype(str).unique())
AllTypes(d) == Sorted({d[i].mat_type : i \in {j \in DOMAIN d : d[j].mat_type # NoText}})

\* line 342: the rows whose material type, as text, is selected
FilterTypesKeepAll(d, selected) == d
FilterTypes(d, selected) ==
    SubTable(d, {i \in DOMAIN d : Str(d[i].mat_type) \in Range(selected)})

\* ensure_types_and_drop_nulls
CoerceRow(r) ==
    [r EXCEPT !.po_dt = Coerce(@), !.gnr_dt = Coerce(@),
              !.po_qty = Coerce(@), !.inward_qty = Coerce(@)]

Complete(r) ==
    r.po_dt # NoValue /\ r.gnr_dt # NoValue /\ r.po_qty # NoValue /\ r.inward_qty # NoValue

Unwrap(r) ==
    [r EXCEPT !.po_dt = @[1], !.gnr_dt = @[1], !.po_qty = @[1], !.inward_qty = @[1]]

ensure_types_and_drop_nulls(d) ==
    LET c == [i \in DOMAIN d |-> CoerceRow(d[i])]
        kept == SubTable(c, {i \in DOMAIN c : Complete(c[i])})
    IN [i \in DOMAIN kept |-> Unwrap(kept[i])]

\* merge_item_category: the left merge on material code yields one output
\* row per matching row of df1, or one row with a missing category when
\* there is none; an existing non-missing category is kept; fillna("") last
MergedRowsMapWins(r, has_cat) ==
    LET matches == {j \in DOMAIN df1 : df1[j].material_code = r.material_code}
        maps == IF matches = {} THEN <<NoText>>
                ELSE LET m == SubTable(df1, matches) IN [j \in DOMAIN m |-> m[j].item_cat]
        cat(map) == IF has_cat /\ map = NoText THEN r.item_cat ELSE map
        filled(c) == IF c = NoText THEN <<>> ELSE c
    IN [j \in DOMAIN maps |->
            [mat_type |-> r.mat_type, material_code |-> r.material_code, po_no |-> r.po_no,
             supplier |-> r.supplier, po_dt |-> r.po_dt, gnr_dt |-> r.gnr_dt,
             po_qty |-> r.po_qty, inward_qty |-> r.inward_qty,
             item_cat |-> filled(cat(maps[j]))]]

MergedRowsNoFill(r, has_cat) ==
    LET matches == {j \in DOMAIN df1 : df1[j].material_code = r.material_code}
        maps == IF matches = {} THEN <<NoText>>
                ELSE LET m == SubTable(df1, matches) IN [j \in DOMAIN m |-> m[j].item_cat]
        cat(map) == IF has_cat /\ r.item_cat # NoText THEN r.item_cat ELSE map
        filled(c) == c
    IN [j \in DOMAIN maps |->
            [mat_type |-> r.mat_type, material_code |-> r.material_code, po_no |-> r.po_no,
             supplier |-> r.supplier, po_dt |-> r.po_dt, gnr_dt |-> r.gnr_dt,
             po_qty |-> r.po_qty, inward_qty |-> r.inward_qty,
             item_cat |-> filled(cat(maps[j]))]]

MergedRows(r, has_cat) ==
    LET matches == {j \in DOMAIN df1 : df1[j].material_code = r.material_code}
        maps == IF matches = {} THEN <<NoText>>
                ELSE LET m == SubTable(df1, matches) IN [j \in DOMAIN m |-> m[j].item_cat]
        cat(map) == IF has_cat /\ r.item_cat # NoText THEN r.item_cat ELSE map
        filled(c) == IF c = NoText THEN <<>> ELSE c
    IN [j \in DOMAIN maps |->
            [mat_type |-> r.mat_type, material_code |-> r.material_code, po_no |-> r.po_no,
             supplier |-> r.supplier, po_dt |-> r.po_dt, gnr_dt |-> r.gnr_dt,
             po_qty |-> r.po_qty, inward_qty |-> r.inward_qty,
             item_cat |-> filled(cat(maps[j]))]]

RECURSIVE FlatMap(_, _, _)
FlatMap(d, has_cat, i) ==
    IF i > Len(d) THEN <<>> ELSE MergedRows(d[i], has_cat) \o FlatMap(d, has_cat, i + 1)

merge_item_category(d) == FlatMap(d, "item_cat" \in DOMAIN d[1], 1)

\* line 358: the selected labels that need a lead time from the sidebar
IsUnknown(t) == Upper(t) \notin DOMAIN DEFAULT_RULES /\ Upper(t) # PPM
UnknownSelected(selected) == SelectSeq(selected, IsUnknown)

\* lines 362-365: lead_time_rules[t.upper()] = number_input(...), in order
RECURSIVE AssignRules(_, _, _)
AssignRules(rules, unknown, inputs) ==
    IF unknown = <<>> THEN rules
    ELSE LET k == Upper(Head(unknown))
         IN AssignRules([x \in DOMAIN rules \cup {k} |->
                            IF x = k THEN Head(inputs) ELSE rules[x]],
                        Tail(unknown), Tail(inputs))

\* ---------------------------------------------------------------- input tables
\* an order line after enrichment and the lead-time step
Line(mat_type, material_code, po_no, supplier, po_dt, gnr_dt, po_qty, inward_qty, item_cat, lead_time) ==
    [mat_type |-> mat_type, material_code |-> material_code, po_no |-> po_no,
     supplier |-> supplier, po_dt |-> po_dt, gnr_dt |-> gnr_dt, po_qty |-> po_qty,
     inward_qty |-> inward_qty, item_cat |-> item_cat, lead_time |-> lead_time]

\* (PO quantity, inward quantity): delivered in full, delivered at 90%
AggQuantities == {<<100, 100>>, <<100, 90>>}

\* (PO date, GRN date, lead time): received on the due date and one day
\* after it under a 30-day lead time, one day late under a 7-day lead time, and a
\* receipt in the previous year
AggTimes ==
    {<<Date(2024, 1, 1), Date(2024, 1, 31), 30>>,
     <<Date(2024, 1, 1), Date(2024, 2, 1), 30>>,
     <<Date(2024, 1, 1), Date(2024, 1, 9), 7>>,
     <<Date(2023, 12, 1), Date(2023, 12, 31), 30>>}

AggLines ==
    {Line(<<"R", "M">>, mc, po, "S1", t[1], t[2], q[1], q[2], <<>>, Some(t[3])) :
        mc \in {"M1", "M2", NaN}, po \in {"PO1", "PO2", NaN},
        q \in AggQuantities, t \in AggTimes}

\* the non-empty tables of at most MaxLines lines
Tables(lines) == UNION {[1..n -> lines] : n \in 1..MaxLines}

\* inputs of the lead-time step: material-type cells and item-category
\* cells in several casings, paddings and near-misses of the bucket members
LeadMatTypes ==
    {<<"P", "P", "M">>,
     <<" ", "p", "p", "m", " ">>,
     <<"P", "p", "m">>,
     <<"R", "M">>,
     <<" ", "r", "m">>,
     <<"S", "P", "M">>,
     <<"X", "Y", "Z">>,
     <<"P", "P", "M", "X">>,
     NoText}

LeadItemCats ==
    {<<"V", "i", "a", "l">>,
     <<" ", "v", "i", "a", "l", " ">>,
     <<"V", "I", "A", "L">>,
     <<"V", "i", "a", "l", "s">>,
     <<"V", "i", "a">>,
     <<"A", "m", "p", "o", "u", "l", "e">>,
     <<"a", "m", "p">>,
     <<>>,
     <<" ">>,
     <<"G", "l", "a", "s", "s">>,
     <<"P", "l", "u", "n", "g", "e", "r">>,
     <<"U", "-", "p", "l", "u", "g">>,
     <<"N", "o", "z", "z", "l", "e">>,
     <<"R", "u", "b", "b", "e", "r", " ", "S", "t", "o", "p", "p", "e", "r">>,
     <<"S", "t", "o", "p", "p", "e", "r">>,
     NoText}

\* an order line before the lead-time step (no Lead Time column yet)
LeadLines ==
    {[mat_type |-> mt, material_code |-> "M1", po_no |-> "PO1", supplier |-> "S1",
      po_dt |-> Date(2024, 1, 1), gnr_dt |-> Date(2024, 1, 20), po_qty |-> 100,
      inward_qty |-> 100, item_cat |-> ic] : mt \in LeadMatTypes, ic \in LeadItemCats}

\* rule sets: the defaults, the defaults with a user-supplied type, and a
\* rule set that has a PPM key
LeadRuleSets ==
    {DEFAULT_RULES,
     DEFAULT_RULES @@ (<<"X", "Y", "Z">> :> 45),
     DEFAULT_RULES @@ (PPM :> 20)}

\* header rows of an uploaded sheet, one header per column in the order of
\* the fields of a row: the canonical names; spelling variants of every
\* column with an item category; "Vendor" in place of the supplier column;
\* two near-miss headers ("Unit", "P O Num")
HeadersCanonical ==
    <<<<"M", "a", "t", " ", "T", "y", "p", "e">>,
      <<"M", "a", "t", "e", "r", "i", "a", "l", " ", "C", "o", "d", "e">>,
      <<"M", "a", "t", "e", "r", "i", "a", "l", " ", "N", "a", "m", "e">>,
      <<"U", "O", "M">>,
      <<"P", ".", "O", ".", " ", "D", "t", ".">>,
      <<"P", ".", " ", "O", ".", " ", "N", "o", ".">>,
      <<"S", "u", "p", "p", "l", "i", "e", "r">>,
      <<"P", "O", " ", "Q", "t", "y", ".">>,
      <<"G", "N", "R", " ", "D", "t", ".">>,
      <<"I", "n", "w", "a", "r", "d", " ", "Q", "t", "y", ".">>>>

HeadersVariants ==
    <<<<" ", "m", "a", "t", " ", " ", "t", "y", "p", "e", " ">>,
      <<"M", "A", "T", "E", "R", "I", "A", "L", "NBSP", "C", "O", "D", "E">>,
      <<"I", "t", "e", "m", " ", "N", "a", "m", "e">>,
      <<"u", "o", "m">>,
      <<"P", "O", " ", "D", "a", "t", "e">>,
      <<"p", "o", "-", "n", "o">>,
      <<"S", "u", "p", "p", "l", "i", "e", "r", " ", "N", "a", "m", "e">>,
      <<"Q", "u", "a", "n", "t", "i", "t", "y">>,
      <<"G", "R", "N">>,
      <<"R", "e", "c", "e", "i", "v", "e", "d", " ", "Q", "t", "y">>,
      <<"c", "a", "t", "e", "g", "o", "r", "y">>>>

HeadersNoSupplier ==
    <<<<"M", "a", "t", " ", "T", "y", "p", "e">>,
      <<"M", "a", "t", "e", "r", "i", "a", "l", " ", "C", "o", "d", "e">>,
      <<"M", "a", "t", "e", "r", "i", "a", "l", " ", "N", "a", "m", "e">>,
      <<"U", "O", "M">>,
      <<"P", ".", "O", ".", " ", "D", "t", ".">>,
      <<"P", ".", " ", "O", ".", " ", "N", "o", ".">>,
      <<"V", "e", "n", "d", "o", "r">>,
      <<"P", "O", " ", "Q", "t", "y", ".">>,
      <<"G", "N", "R", " ", "D", "t", ".">>,
      <<"I", "n", "w", "a", "r", "d", " ", "Q", "t", "y", ".">>>>

HeadersNearMiss ==
    <<<<"M", "a", "t", " ", "T", "y", "p", "e">>,
      <<"M", "a", "t", "e", "r", "i", "a", "l", " ", "C", "o", "d", "e">>,
      <<"M", "a", "t", "e", "r", "i", "a", "l", " ", "N", "a", "m", "e">>,
      <<"U", "n", "i", "t">>,
      <<"P", ".", "O", ".", " ", "D", "t", ".">>,
      <<"P", " ", "O", " ", "N", "u", "m">>,
      <<"S", "u", "p", "p", "l", "i", "e", "r">>,
      <<"P", "O", " ", "Q", "t", "y", ".">>,
      <<"G", "N", "R", " ", "D", "t", ".">>,
      <<"I", "n", "w", "a", "r", "d", " ", "Q", "t", "y", ".">>,
      <<"I", "t", "e", "m", " ", "C", "a", "t", "e", "g", "o", "r", "y">>>>

\* a raw order line of the sheet
RawLine(mat_type, material_code, po_no, supplier, po_dt, gnr_dt, po_qty, inward_qty, item_cat) ==
    [mat_type |-> mat_type, material_code |-> material_code, po_no |-> po_no,
     supplier |-> supplier, po_dt |-> po_dt, gnr_dt |-> gnr_dt, po_qty |-> po_qty,
     inward_qty |-> inward_qty, item_cat |-> item_cat]

RM == <<"R", "M">>
Jan01 == Value(Date(2024, 1, 1))
Jan20 == Value(Date(2024, 1, 20))

BaseLine == RawLine(RM, "4AO005", "PO1", "S1", Jan01, Jan20, Value(100), Value(100), NoText)

\* the base line and lines that differ from it in one column
PageLines ==
    {BaseLine}
    \cup {[BaseLine EXCEPT !.mat_type = mt] :
            mt \in {<<"X", "Y", "Z">>, <<"x", "y", "z">>, <<"A", "b", "c", " ">>, NoText}}
    \cup {[BaseLine EXCEPT !.mat_type = PPM, !.item_cat = <<"V", "i", "a", "l">>]}
    \cup {[BaseLine EXCEPT !.po_no = po] : po \in {"PO2", NaN}}
    \cup {[BaseLine EXCEPT !.material_code = mc] : mc \in {"4BT008G", NaN}}
    \cup {[BaseLine EXCEPT !.inward_qty = q] : q \in {Value(90), BadText}}
    \cup {[BaseLine EXCEPT !.gnr_dt = g] : g \in {Value(Date(2024, 2, 5)), Empty}}
    \cup {[BaseLine EXCEPT !.supplier = NaN]}

\* the uploaded sheets: one that no engine can read, sheets whose header
\* row lacks a required column, and readable sheets of at most MaxLines
\* lines under the canonical and the variant header rows
Files ==
    {[readable |-> FALSE, columns |-> HeadersCanonical, rows |-> <<BaseLine>>]}
    \cup {[readable |-> TRUE, columns |-> h, rows |-> <<BaseLine>>] :
            h \in {HeadersNoSupplier, HeadersNearMiss}}
    \cup {[readable |-> TRUE, columns |-> h, rows |-> rows] :
            h \in {HeadersCanonical, HeadersVariants},
            rows \in {<<>>} \cup Tables(PageLines)}

\* values typed into a sidebar number_input (default 30)
LeadTimeInputs == {30, 45}

\* ---------------------------------------------------------------- the page run
NoNotice == [level |-> "none", msg |-> "", about |-> {}]
Notice(level, msg, about) == [level |-> level, msg |-> msg, about |-> about]

NoFile == [readable |-> FALSE, columns |-> <<>>, rows |-> <<>>]

\* no failed-orders download has been offered
NoReport == [kind |-> "none", vendors |-> <<>>, rows |-> <<>>]

\* lines 312-321: load_and_clean inside try/except, then the empty check
LoadAndClean ==
    /\ pc = "load"
    /\ IF ~file.readable
       THEN /\ notice' = Notice("error", "Processing error: failed to read", {})
            /\ pc' = "stopped"
            /\ UNCHANGED df_raw
       ELSE IF MissingCols(file.columns) # <<>>
       THEN /\ notice' = Notice("error", "Processing error: missing required columns",
                                Range(MissingCols(file.columns)))
            /\ pc' = "stopped"
            /\ UNCHANGED df_raw
       ELSE /\ df_raw' = [i \in DOMAIN file.rows |->
                            SelectCols(file.rows[i], HasItemCat(file.columns))]
            /\ IF file.rows = <<>>
               THEN /\ notice' = Notice("warning", "No rows found after basic load", {})
                    /\ pc' = "stopped"
               ELSE /\ notice' = notice
                    /\ pc' = "select"
    /\ df_columns' = IF file.readable THEN standardize_column_names(file.columns) ELSE df_columns
    /\ UNCHANGED <<file, selected_types, df, df_line, df_po, lead_time_rules, lt_input>>
    /\ UNCHANGED <<selected_year, po_year, monthly, vendor_stats>>
    /\ UNCHANGED <<breaches, top10, report, data_file_loaded, uploader_offered>>

\* lines 323-345: the sidebar checkboxes, then the filter.  "Select ALL" is
\* the choice of every label; the labels keep the order of all_types.
SelectMatTypes ==
    /\ pc = "select"
    /\ \E ticked \in SUBSET Range(AllTypes(df_raw)) :
        LET selected == SelectSeq(AllTypes(df_raw), LAMBDA t : t \in ticked)
            filtered == FilterTypes(df_raw, selected)
        IN /\ selected_types' = selected
           /\ IF selected = <<>>
              THEN /\ notice' = Notice("warning", "Please select at least one Mat Type", {})
                   /\ pc' = "stopped"
                   /\ UNCHANGED df
              ELSE /\ df' = filtered
                   /\ IF filtered = <<>>
                      THEN /\ notice' = Notice("warning", "No rows remain after Mat Type filtering", {})
                           /\ pc' = "stopped"
                      ELSE /\ notice' = notice
                           /\ pc' = "types"
    /\ UNCHANGED <<file, df_raw, df_line, df_po, lead_time_rules, lt_input>>
    /\ UNCHANGED <<df_columns, selected_year, po_year, monthly, vendor_stats>>
    /\ UNCHANGED <<breaches, top10, report, data_file_loaded, uploader_offered>>

\* lines 347-351
EnsureTypes ==
    /\ pc = "types"
    /\ df' = ensure_types_and_drop_nulls(df)
    /\ IF df' = <<>>
       THEN /\ notice' = Notice("warning", "No rows remain after dropping records", {})
            /\ pc' = "stopped"
       ELSE /\ notice' = notice
            /\ pc' = "merge"
    /\ UNCHANGED <<file, df_raw, selected_types, df_line, df_po, lead_time_rules, lt_input>>
    /\ UNCHANGED <<df_columns, selected_year, po_year, monthly, vendor_stats>>
    /\ UNCHANGED <<breaches, top10, report, data_file_loaded, uploader_offered>>

\* lines 353-354
MergeItemCategory ==
    /\ pc = "merge"
    /\ df' = merge_item_category(df)
    /\ pc' = "rules"
    /\ UNCHANGED <<file, df_raw, selected_types, df_line, df_po, lead_time_rules, lt_input, notice>>
    /\ UNCHANGED <<df_columns, selected_year, po_year, monthly, vendor_stats>>
    /\ UNCHANGED <<breaches, top10, report, data_file_loaded, uploader_offered>>

\* lines 356-365: the defaults plus one sidebar input per unknown label
LeadTimeRules ==
    /\ pc = "rules"
    /\ \E inputs \in [1..Len(UnknownSelected(selected_types)) -> LeadTimeInputs] :
        LET unknown == UnknownSelected(selected_types)
        IN /\ lead_time_rules' = AssignRules(DEFAULT_RULES, unknown, inputs)
           /\ lt_input' = [t \in Range(unknown) |->
                            inputs[CHOOSE k \in DOMAIN unknown : unknown[k] = t]]
    /\ pc' = "lead_time"
    /\ UNCHANGED <<file, df_raw, selected_types, df, df_line, df_po, notice>>
    /\ UNCHANGED <<df_columns, selected_year, po_year, monthly, vendor_stats>>
    /\ UNCHANGED <<breaches, top10, report, data_file_loaded, uploader_offered>>

\* line 369: df["Lead Time"].isna().any()
LeadTimeMissingIgnored(d) == FALSE
LeadTimeMissing(d) == \E i \in DOMAIN d : d[i].lead_time = NoValue

\* lines 367-372: the Lead Time column is assigned, then rows without a lead
\* time make the page report an error and stop
LeadTimeStep ==
    /\ pc = "lead_time"
    /\ LET lt == [i \in DOMAIN df |-> compute_lead_time_for_row(df[i], lead_time_rules)]
           bad == {df[i].mat_type : i \in {j \in DOMAIN df : lt[j] = NoValue}}
       IN /\ df' = [i \in DOMAIN df |->
                    Line(df[i].mat_type, df[i].material_code, df[i].po_no, df[i].supplier,
                         df[i].po_dt, df[i].gnr_dt, df[i].po_qty, df[i].inward_qty,
                         df[i].item_cat, lt[i])]
          /\ IF LeadTimeMissing(df')
             THEN /\ notice' = Notice("error", "Lead Time missing for Mat Types", bad)
                  /\ pc' = "stopped"
             ELSE /\ notice' = notice
                  /\ pc' = "metrics"
    /\ UNCHANGED <<file, df_raw, selected_types, df_line, df_po, lead_time_rules, lt_input>>
    /\ UNCHANGED <<df_columns, selected_year, po_year, monthly, vendor_stats>>
    /\ UNCHANGED <<breaches, top10, report, data_file_loaded, uploader_offered>>

\* line 375: df_line, df_po = compute_po_level_metrics(df); an exception
\* raised inside it is not caught by the script
ComputePoLevelMetrics ==
    /\ pc = "metrics"
    /\ IF MetricsRaises(df)
       THEN /\ pc' = "exception"
            /\ UNCHANGED <<df_line, df_po>>
       ELSE /\ pc' = "metrics_done"
            /\ df_line' = DfLine(df)
            /\ df_po' = DfPo(df)
    /\ UNCHANGED <<file, df_raw, selected_types, df, lead_time_rules, lt_input, notice>>
    /\ UNCHANGED <<df_columns, selected_year, po_year, monthly, vendor_stats>>
    /\ UNCHANGED <<breaches, top10, report, data_file_loaded, uploader_offered>>

\* ---------------------------------------------------------------- summaries
\* a mean or a percentage, kept as the exact fraction num / den of the two
\* integers the code divides
Frac(num, den) == [num |-> num, den |-> den]

\* line 381: sorted(df_po["Year"].dropna().unique().astype(int).tolist())
YearsOf(d) == {d[i].Year : i \in DOMAIN d}

\* line 387: df_po[df_po["Year"] == selected_year]
PoYearAfter(d, year) == SubTable(d, {i \in DOMAIN d : d[i].Year > year})
PoYear(d, year) == SubTable(d, {i \in DOMAIN d : d[i].Year = year})

\* ("col", "count"): the rows of S whose PO number is not missing
CountPo(d, S) == Cardinality({i \in S : d[i].po_no # NaN})

\* ("col", "mean") over the rows S of a 0/1 column
Mean(col, S) == Frac(SetSum(col, S), Cardinality(S))

\* lines 390-398: one row per (MonthNum, Month) key, in key order
MonthlyRowYearMean(d, m) ==
    LET S == {i \in DOMAIN d : d[i].MonthNum = m}
    IN [MonthNum |-> m,
        Month |-> MonthAbbr[m],
        Avg_OTIF |-> Mean([i \in DOMAIN d |-> d[i].OTIF], DOMAIN d),
        Avg_OnTime |-> Mean([i \in DOMAIN d |-> d[i].OnTime], DOMAIN d),
        Avg_InFull |-> Mean([i \in DOMAIN d |-> d[i].PO_Fulfilled], DOMAIN d),
        Total_Orders |-> CountPo(d, S)]
MonthlyRow(d, m) ==
    LET S == {i \in DOMAIN d : d[i].MonthNum = m}
    IN [MonthNum |-> m,
        Month |-> MonthAbbr[m],
        Avg_OTIF |-> Mean([i \in DOMAIN d |-> d[i].OTIF], S),
        Avg_OnTime |-> Mean([i \in DOMAIN d |-> d[i].OnTime], S),
        Avg_InFull |-> Mean([i \in DOMAIN d |-> d[i].PO_Fulfilled], S),
        Total_Orders |-> CountPo(d, S)]

RECURSIVE MonthlyRows(_, _)
MonthlyRows(d, months) ==
    IF months = {} THEN <<>>
    ELSE LET m == SetMin(months)
         IN <<MonthlyRow(d, m)>> \o MonthlyRows(d, months \ {m})

Monthly(d) == MonthlyRows(d, {d[i].MonthNum : i \in DOMAIN d})

\* the supplier names of the modelled sheets in the order Python sorts
\* them; groupby(dropna=False) puts the missing key after them
SupplierNames == <<"S1", "S2", "Unknown Supplier", "V01", "V02", "V03", "V04", "V05", "V06", "V07", "V08", "V09", "V10", "V11", "V12", "V13">>
SupplierRank(k) ==
    IF k = NaN THEN Len(SupplierNames) + 1
    ELSE CHOOSE n \in DOMAIN SupplierNames : SupplierNames[n] = k

\* lines 450-459: one row per supplier key; the label of the missing key
\* is filled in after the grouping
VendorRowPctOfYear(d, k, total_orders_year) ==
    LET S == {i \in DOMAIN d : d[i].supplier = k}
        orders == CountPo(d, S)
        success == Cardinality({i \in S : d[i].OTIF = 1})
    IN [supplier |-> IF k = NaN THEN "Unknown Supplier" ELSE k,
        Total_Orders |-> orders,
        OTIF_Failures |-> Cardinality({i \in S : d[i].OTIF = 0}),
        OTIF_Success |-> success,
        Vendor_OTIF_pct |-> Frac(success * 100, total_orders_year),
        Total_Contribution_pct |->
            Frac(orders * 100, IF total_orders_year > 0 THEN total_orders_year ELSE 1)]
VendorRowShareOfSuccess(d, k, total_orders_year) ==
    LET S == {i \in DOMAIN d : d[i].supplier = k}
        orders == CountPo(d, S)
        success == Cardinality({i \in S : d[i].OTIF = 1})
    IN [supplier |-> IF k = NaN THEN "Unknown Supplier" ELSE k,
        Total_Orders |-> orders,
        OTIF_Failures |-> Cardinality({i \in S : d[i].OTIF = 0}),
        OTIF_Success |-> success,
        Vendor_OTIF_pct |-> Frac(success * 100, orders),
        Total_Contribution_pct |->
            Frac(success * 100, IF total_orders_year > 0 THEN total_orders_year ELSE 1)]
VendorRow(d, k, total_orders_year) ==
    LET S == {i \in DOMAIN d : d[i].supplier = k}
        orders == CountPo(d, S)
        success == Cardinality({i \in S : d[i].OTIF = 1})
    IN [supplier |-> IF k = NaN THEN "Unknown Supplier" ELSE k,
        Total_Orders |-> orders,
        OTIF_Failures |-> Cardinality({i \in S : d[i].OTIF = 0}),
        OTIF_Success |-> success,
        Vendor_OTIF_pct |-> Frac(success * 100, orders),
        Total_Contribution_pct |->
            Frac(orders * 100, IF total_orders_year > 0 THEN total_orders_year ELSE 1)]

RECURSIVE VendorRows(_, _)
VendorRows(d, keys) ==
    IF keys = {} THEN <<>>
    ELSE LET k == CHOOSE x \in keys : \A y \in keys : SupplierRank(x) <= SupplierRank(y)
         IN <<VendorRow(d, k, Len(d))>> \o VendorRows(d, keys \ {k})

VendorStatsOf(d) == VendorRows(d, {d[i].supplier : i \in DOMAIN d})

\* line 446: po_year[po_year["OTIF"] == 0]
Breaches(d) == SubTable(d, {i \in DOMAIN d : d[i].OTIF = 0})

\* sort_values(key, ascending=False) of a short table: descending key,
\* rows of equal key in their previous order; S is the set of row indices
\* still to be placed
RECURSIVE SortDesc(_, _, _)
SortDesc(d, key, S) ==
    IF S = {} THEN <<>>
    ELSE LET i == CHOOSE x \in S : \A y \in S : key[x] > key[y] \/ (key[x] = key[y] /\ x <= y)
         IN <<d[i]>> \o SortDesc(d, key, S \ {i})

\* vendor_stats[vendor_stats["OTIF_Failures"] > 0].sort_values("OTIF_Failures", ascending=False)
VendorOrder(vs) ==
    LET failing == SubTable(vs, {j \in DOMAIN vs : vs[j].OTIF_Failures > 0})
    IN SortDesc(failing, [j \in DOMAIN failing |-> failing[j].OTIF_Failures], DOMAIN failing)

\* .head(10)
HeadRowsLast(d) == SubSeq(d, IF Len(d) < 10 THEN 1 ELSE Len(d) - 9, Len(d))
HeadRows(d) == SubSeq(d, 1, IF Len(d) < 10 THEN Len(d) ELSE 10)

\* lines 461-466: the empty table when nothing failed, else the ten
\* suppliers with the most failures
Top10AllVendors(b, vs) ==
    HeadRows(SortDesc(vs, [j \in DOMAIN vs |-> vs[j].OTIF_Failures], DOMAIN vs))
Top10(b, vs) == IF b = <<>> THEN <<>> ELSE HeadRows(VendorOrder(vs))

\* generate_failed_orders_pdf, line 257: the failed orders listed under a
\* vendor header, latest GRN date first
VendorGroup(b, vendor) ==
    LET mine == SubTable(b, {i \in DOMAIN b : b[i].supplier # NaN /\ b[i].supplier = vendor})
        sorted == SortDesc(mine, [i \in DOMAIN mine |-> mine[i].gnr_dt], DOMAIN mine)
    IN [i \in DOMAIN sorted |-> sorted[i].po_no]

\* generate_failed_orders_pdf: one header per vendor with failures, each
\* followed by that vendor's failed orders
generate_failed_orders_pdf(b, vs) ==
    LET vendor_order == VendorOrder(vs)
    IN [j \in DOMAIN vendor_order |->
            [vendor |-> vendor_order[j].supplier,
             failures |-> vendor_order[j].OTIF_Failures,
             total_orders |-> vendor_order[j].Total_Orders,
             orders |-> VendorGroup(b, vendor_order[j].supplier)]]

\* lines 480, 489: the CSV of the failed orders, suppliers in descending
\* order with the missing supplier last, latest GRN date first
FailedOrdersCsv(b) ==
    LET by_date == SortDesc(b, [i \in DOMAIN b |-> b[i].gnr_dt], DOMAIN b)
        rank2 == [i \in DOMAIN by_date |->
                    IF by_date[i].supplier = NaN THEN 0 - 1 ELSE SupplierRank(by_date[i].supplier)]
        sorted == SortDesc(by_date, rank2, DOMAIN by_date)
    IN [i \in DOMAIN sorted |->
            [supplier |-> sorted[i].supplier, gnr_dt |-> sorted[i].gnr_dt, po_no |-> sorted[i].po_no]]

\* lines 376-387: the empty check, the years of the PO table, the
\* selectbox (any of the years may be chosen) and the rows of that year
SelectYear ==
    /\ pc = "metrics_done"
    /\ IF df_po = <<>>
       THEN /\ notice' = Notice("warning", "No P.O. rows available after processing", {})
            /\ pc' = "stopped"
            /\ UNCHANGED <<selected_year, po_year>>
       ELSE IF YearsOf(df_po) = {}
       THEN /\ notice' = Notice("error", "No valid 'GNR Dt.' years found after processing", {})
            /\ pc' = "stopped"
            /\ UNCHANGED <<selected_year, po_year>>
       ELSE \E year \in YearsOf(df_po) :
            /\ selected_year' = Some(year)
            /\ po_year' = PoYear(df_po, year)
            /\ notice' = notice
            /\ pc' = "year"
    /\ UNCHANGED <<file, df_columns, df_raw, selected_types, df, df_line, df_po>>
    /\ UNCHANGED <<lead_time_rules, lt_input, monthly, vendor_stats>>
    /\ UNCHANGED <<breaches, top10, report, data_file_loaded, uploader_offered>>

\* lines 389-399
MonthlySummary ==
    /\ pc = "year"
    /\ monthly' = Monthly(po_year)
    /\ pc' = "monthly"
    /\ UNCHANGED <<file, df_columns, df_raw, selected_types, df, df_line, df_po>>
    /\ UNCHANGED <<lead_time_rules, lt_input, notice, selected_year, po_year, vendor_stats>>
    /\ UNCHANGED <<breaches, top10, report, data_file_loaded, uploader_offered>>

\* lines 448-459
VendorStats ==
    /\ pc = "monthly"
    /\ breaches' = Breaches(po_year)
    /\ vendor_stats' = VendorStatsOf(po_year)
    /\ pc' = "vendor"
    /\ UNCHANGED <<file, df_columns, df_raw, selected_types, df, df_line, df_po>>
    /\ UNCHANGED <<lead_time_rules, lt_input, notice, selected_year, po_year, monthly>>
    /\ UNCHANGED <<top10, report, data_file_loaded, uploader_offered>>

\* lines 461-470: the top-10 breach table
TopTen ==
    /\ pc = "vendor"
    /\ top10' = Top10(breaches, vendor_stats)
    /\ notice' = IF breaches = <<>>
                 THEN Notice("success", "No OTIF breaches in the selected year", {})
                 ELSE notice
    /\ pc' = "top10"
    /\ UNCHANGED <<file, df_columns, df_raw, selected_types, df, df_line, df_po>>
    /\ UNCHANGED <<lead_time_rules, lt_input, selected_year, po_year, monthly, vendor_stats>>
    /\ UNCHANGED <<breaches, report, data_file_loaded, uploader_offered>>

\* lines 472-516: when there are breaches, the failed-orders download (the
\* PDF when reportlab is installed, else a warning and the CSV); then the
\* PO-level and monthly downloads, which end the script
Downloads ==
    /\ pc = "top10"
    /\ IF breaches = <<>>
       THEN UNCHANGED <<report, notice>>
       ELSE \E reportlab_available \in BOOLEAN :
            IF reportlab_available
            THEN /\ report' = [kind |-> "pdf",
                               vendors |-> generate_failed_orders_pdf(breaches, vendor_stats),
                               rows |-> <<>>]
                 /\ notice' = notice
            ELSE /\ report' = [kind |-> "csv", vendors |-> <<>>,
                               rows |-> FailedOrdersCsv(breaches)]
                 /\ notice' = Notice("warning", "PDF export requires the reportlab package", {})
    /\ pc' = "done"
    /\ UNCHANGED <<file, df_columns, df_raw, selected_types, df, df_line, df_po>>
    /\ UNCHANGED <<lead_time_rules, lt_input, selected_year, po_year, monthly, vendor_stats>>
    /\ UNCHANGED <<breaches, top10, data_file_loaded, uploader_offered>>

\* line 153: df = standardize_column_names(df), on the header row alone
StandardizeColumnNames ==
    /\ pc = "rename"
    /\ df_columns' = standardize_column_names(file.columns)
    /\ pc' = "renamed"
    /\ UNCHANGED <<file, df_raw, selected_types, df, df_line, df_po, lead_time_rules, lt_input, notice>>
    /\ UNCHANGED <<selected_year, po_year, monthly, vendor_stats>>
    /\ UNCHANGED <<breaches, top10, report, data_file_loaded, uploader_offered>>

\* ---------------------------------------------------------------- specifications
\* one run of the page on an uploaded sheet
Init ==
    /\ pc = "load"
    /\ file \in Files
    /\ df_raw = <<>>
    /\ selected_types = <<>>
    /\ df = <<>>
    /\ df_line = <<>>
    /\ df_po = <<>>
    /\ lead_time_rules = DEFAULT_RULES
    /\ lt_input = <<>>
    /\ notice = NoNotice
    /\ df_columns = <<>>
    /\ selected_year = NoValue
    /\ po_year = <<>>
    /\ monthly = <<>>
    /\ vendor_stats = <<>>
    /\ breaches = <<>>
    /\ top10 = <<>>
    /\ report = NoReport
    /\ data_file_loaded = (file # NoFile)
    /\ uploader_offered = FALSE

Next ==
    \/ LoadAndClean
    \/ SelectMatTypes
    \/ EnsureTypes
    \/ MergeItemCategory
    \/ LeadTimeRules
    \/ LeadTimeStep
    \/ ComputePoLevelMetrics
    \/ SelectYear
    \/ MonthlySummary
    \/ VendorStats
    \/ TopTen
    \/ Downloads

Spec == Init /\ [][Next]_vars

\* the positions of the script at which no run is in progress
RunEnded == {"idle", "done", "stopped", "exception"}

\* the sheets offered to the uploader of a session: those of Files with at
\* most one line
SessionFiles == {f \in Files : Len(f.rows) <= 1}

\* lines 294-310, the start of a run of the script: the uploader is shown
\* only while data_file_loaded is unset and returns the sheet the user put
\* in it, if any; a sheet held in session state takes its place; the sheet
\* is stored and the flag set; without a sheet the run stops.  The names
\* bound by the previous run are gone.
StartRunReplace ==
    /\ pc \in RunEnded
    /\ uploader_offered' = ~data_file_loaded
    /\ \E u \in {NoFile} \cup SessionFiles :
        /\ data_file_loaded => u = NoFile
        /\ LET uploaded == IF u # NoFile THEN u ELSE file
           IN /\ file' = uploaded
              /\ data_file_loaded' = (data_file_loaded \/ uploaded # NoFile)
              /\ IF data_file_loaded \/ uploaded # NoFile
                 THEN /\ notice' = NoNotice
                      /\ pc' = "load"
                 ELSE /\ notice' = Notice("info", "Upload your Excel to begin", {})
                      /\ pc' = "stopped"
    /\ df_raw' = <<>>
    /\ selected_types' = <<>>
    /\ df' = <<>>
    /\ df_line' = <<>>
    /\ df_po' = <<>>
    /\ lead_time_rules' = DEFAULT_RULES
    /\ lt_input' = <<>>
    /\ df_columns' = <<>>
    /\ selected_year' = NoValue
    /\ po_year' = <<>>
    /\ monthly' = <<>>
    /\ vendor_stats' = <<>>
    /\ breaches' = <<>>
    /\ top10' = <<>>
    /\ report' = NoReport
StartRun ==
    /\ pc \in RunEnded
    /\ uploader_offered' = ~data_file_loaded
    /\ \E u \in {NoFile} \cup SessionFiles :
        /\ data_file_loaded => u = NoFile
        /\ LET uploaded == IF file # NoFile THEN file ELSE u
           IN /\ file' = uploaded
              /\ data_file_loaded' = (data_file_loaded \/ uploaded # NoFile)
              /\ IF data_file_loaded \/ uploaded # NoFile
                 THEN /\ notice' = NoNotice
                      /\ pc' = "load"
                 ELSE /\ notice' = Notice("info", "Upload your Excel to begin", {})
                      /\ pc' = "stopped"
    /\ df_raw' = <<>>
    /\ selected_types' = <<>>
    /\ df' = <<>>
    /\ df_line' = <<>>
    /\ df_po' = <<>>
    /\ lead_time_rules' = DEFAULT_RULES
    /\ lt_input' = <<>>
    /\ df_columns' = <<>>
    /\ selected_year' = NoValue
    /\ po_year' = <<>>
    /\ monthly' = <<>>
    /\ vendor_stats' = <<>>
    /\ breaches' = <<>>
    /\ top10' = <<>>
    /\ report' = NoReport

\* a session before the first run of the page: no sheet, or a sheet
\* stored under "uploaded_file" by another page of the app; the flag of
\* this page is unset
InitSession ==
    /\ pc = "idle"
    /\ file \in {NoFile} \cup SessionFiles
    /\ df_raw = <<>>
    /\ selected_types = <<>>
    /\ df = <<>>
    /\ df_line = <<>>
    /\ df_po = <<>>
    /\ lead_time_rules = DEFAULT_RULES
    /\ lt_input = <<>>
    /\ notice = NoNotice
    /\ df_columns = <<>>
    /\ selected_year = NoValue
    /\ po_year = <<>>
    /\ monthly = <<>>
    /\ vendor_stats = <<>>
    /\ breaches = <<>>
    /\ top10 = <<>>
    /\ report = NoReport
    /\ data_file_loaded = FALSE
    /\ uploader_offered = FALSE

\* the runs of the page in one session, one after the other
NextSession ==
    \/ StartRun
    \/ LoadAndClean
    \/ SelectMatTypes
    \/ EnsureTypes
    \/ MergeItemCategory
    \/ LeadTimeRules
    \/ LeadTimeStep
    \/ ComputePoLevelMetrics
    \/ SelectYear
    \/ MonthlySummary
    \/ VendorStats
    \/ TopTen
    \/ Downloads

SpecSession == InitSession /\ [][NextSession]_vars

\* compute_po_level_metrics applied to every table of AggLines
InitAgg ==
    /\ pc = "metrics"
    /\ file = NoFile
    /\ df_raw = <<>>
    /\ selected_types = <<>>
    /\ df \in Tables(AggLines)
    /\ df_line = <<>>
    /\ df_po = <<>>
    /\ lead_time_rules = DEFAULT_RULES
    /\ lt_input = <<>>
    /\ notice = NoNotice
    /\ df_columns = <<>>
    /\ selected_year = NoValue
    /\ po_year = <<>>
    /\ monthly = <<>>
    /\ vendor_stats = <<>>
    /\ breaches = <<>>
    /\ top10 = <<>>
    /\ report = NoReport
    /\ data_file_loaded = (file # NoFile)
    /\ uploader_offered = FALSE

NextAgg == ComputePoLevelMetrics

SpecAgg == InitAgg /\ [][NextAgg]_vars

\* the lead-time step applied to every line of LeadLines under every rule
\* set of LeadRuleSets
InitLead ==
    /\ pc = "lead_time"
    /\ file = NoFile
    /\ df_raw = <<>>
    /\ selected_types = <<>>
    /\ df \in [1..1 -> LeadLines]
    /\ df_line = <<>>
    /\ df_po = <<>>
    /\ lead_time_rules \in LeadRuleSets
    /\ lt_input = <<>>
    /\ notice = NoNotice
    /\ df_columns = <<>>
    /\ selected_year = NoValue
    /\ po_year = <<>>
    /\ monthly = <<>>
    /\ vendor_stats = <<>>
    /\ breaches = <<>>
    /\ top10 = <<>>
    /\ report = NoReport
    /\ data_file_loaded = (file # NoFile)
    /\ uploader_offered = FALSE

NextLead == LeadTimeStep

SpecLead == InitLead /\ [][NextLead]_vars

\* PO numbers for tables that give every line its own PO
PoNames == <<"PO1", "PO2", "PO3", "PO4", "PO5", "PO6">>

\* order lines for the summaries, one PO each: suppliers S1, S2, a missing
\* supplier and a supplier named like the label of the missing one; POs
\* that pass, are late or are short; received in January or February 2024
\* or in December 2023
SummaryShapes ==
    {[supplier |-> "S1", po_dt |-> Date(2024, 1, 1), gnr_dt |-> Date(2024, 1, 20), inward_qty |-> 100],
     [supplier |-> "S1", po_dt |-> Date(2023, 12, 1), gnr_dt |-> Date(2024, 1, 20), inward_qty |-> 100],
     [supplier |-> "S1", po_dt |-> Date(2024, 2, 1), gnr_dt |-> Date(2024, 2, 10), inward_qty |-> 100],
     [supplier |-> "S2", po_dt |-> Date(2024, 2, 1), gnr_dt |-> Date(2024, 2, 10), inward_qty |-> 90],
     [supplier |-> NaN, po_dt |-> Date(2024, 1, 1), gnr_dt |-> Date(2024, 1, 20), inward_qty |-> 100],
     [supplier |-> "Unknown Supplier", po_dt |-> Date(2024, 1, 1), gnr_dt |-> Date(2024, 1, 20), inward_qty |-> 90],
     [supplier |-> "S2", po_dt |-> Date(2023, 12, 1), gnr_dt |-> Date(2023, 12, 20), inward_qty |-> 100]}

SummaryLine(i, sh) ==
    Line(RM, "4AO005", PoNames[i], sh.supplier, sh.po_dt, sh.gnr_dt, 100, sh.inward_qty, <<>>, Some(30))

\* tables of at most MaxPos POs of one line each
SummaryTables ==
    UNION {{[i \in 1..n |-> SummaryLine(i, shapes[i])] : shapes \in [1..n -> SummaryShapes]} :
            n \in 1..MaxPos}

\* the aggregation and the summaries applied to every table of SummaryTables
InitSummary ==
    /\ pc = "metrics"
    /\ file = NoFile
    /\ df_raw = <<>>
    /\ selected_types = <<RM>>
    /\ df \in SummaryTables
    /\ df_line = <<>>
    /\ df_po = <<>>
    /\ lead_time_rules = DEFAULT_RULES
    /\ lt_input = <<>>
    /\ notice = NoNotice
    /\ df_columns = <<>>
    /\ selected_year = NoValue
    /\ po_year = <<>>
    /\ monthly = <<>>
    /\ vendor_stats = <<>>
    /\ breaches = <<>>
    /\ top10 = <<>>
    /\ report = NoReport
    /\ data_file_loaded = (file # NoFile)
    /\ uploader_offered = FALSE

NextSummary ==
    \/ ComputePoLevelMetrics
    \/ SelectYear
    \/ MonthlySummary
    \/ VendorStats
    \/ TopTen
    \/ Downloads

SpecSummary == InitSummary /\ [][NextSummary]_vars

\* the largest number of suppliers of a year in the tables of TopTables
MaxVendors == 11

\* the name of the v-th supplier of those tables
VendorName(v) == SupplierNames[3 + v]

\* one PO of one line of supplier v, received in January 2024 in full or
\* short
TopLine(v, n, inward_qty) ==
    Line(RM, "4AO005", "T" \o ToString(v) \o "-" \o ToString(n), VendorName(v), Date(2024, 1, 1), Date(2024, 1, 20), 100, inward_qty, <<>>, Some(30))

\* the POs of supplier v in a year where supplier most has two failed
\* POs, supplier none has one PO that passed and every other supplier has
\* one failed PO
RECURSIVE TopRows(_, _, _)
TopRows(n, most, none) ==
    IF n = 0 THEN <<>>
    ELSE TopRows(n - 1, most, none) \o
         (IF n = none THEN <<TopLine(n, 1, 100)>>
          ELSE IF n = most THEN <<TopLine(n, 1, 90), TopLine(n, 2, 90)>>
          ELSE <<TopLine(n, 1, 90)>>)

\* years of at most MaxVendors suppliers: any supplier (or none, 0) with
\* two failures, any supplier (or none, 0) without failure; and the
\* years in which every PO passed
TopTables ==
    {TopRows(n, most, none) : n \in 1..MaxVendors, most \in 0..MaxVendors, none \in 0..MaxVendors}
    \cup {[v \in 1..n |-> TopLine(v, 1, 100)] : n \in 1..MaxVendors}

\* the aggregation and the summaries applied to every table of TopTables
InitTop ==
    /\ pc = "metrics"
    /\ file = NoFile
    /\ df_raw = <<>>
    /\ selected_types = <<RM>>
    /\ df \in TopTables
    /\ df_line = <<>>
    /\ df_po = <<>>
    /\ lead_time_rules = DEFAULT_RULES
    /\ lt_input = <<>>
    /\ notice = NoNotice
    /\ df_columns = <<>>
    /\ selected_year = NoValue
    /\ po_year = <<>>
    /\ monthly = <<>>
    /\ vendor_stats = <<>>
    /\ breaches = <<>>
    /\ top10 = <<>>
    /\ report = NoReport
    /\ data_file_loaded = (file # NoFile)
    /\ uploader_offered = FALSE

NextTop ==
    \/ ComputePoLevelMetrics
    \/ SelectYear
    \/ MonthlySummary
    \/ VendorStats
    \/ TopTen
    \/ Downloads

SpecTop == InitTop /\ [][NextTop]_vars

\* order lines of two POs that name suppliers S1, S2 or none, received in
\* full or short in January 2024
AttrLines ==
    {Line(RM, "4AO005", po, supplier, Date(2024, 1, 1), Date(2024, 1, 20), 100, inward_qty, <<>>, Some(30)) :
        po \in {"PO1", "PO2"}, supplier \in {"S1", "S2", NaN}, inward_qty \in {100, 90}}

\* the aggregation and the summaries applied to every table of at most
\* MaxLines lines of AttrLines
InitAttr ==
    /\ pc = "metrics"
    /\ file = NoFile
    /\ df_raw = <<>>
    /\ selected_types = <<RM>>
    /\ df \in Tables(AttrLines)
    /\ df_line = <<>>
    /\ df_po = <<>>
    /\ lead_time_rules = DEFAULT_RULES
    /\ lt_input = <<>>
    /\ notice = NoNotice
    /\ df_columns = <<>>
    /\ selected_year = NoValue
    /\ po_year = <<>>
    /\ monthly = <<>>
    /\ vendor_stats = <<>>
    /\ breaches = <<>>
    /\ top10 = <<>>
    /\ report = NoReport
    /\ data_file_loaded = (file # NoFile)
    /\ uploader_offered = FALSE

NextAttr == NextSummary

SpecAttr == InitAttr /\ [][NextAttr]_vars

\* raw order lines of types RM (30 days) and SPM (15 days) for two POs,
\* received after 19 days in full or by half: the RM lines are on time,
\* the SPM lines late
FilterLines ==
    {SelectCols(RawLine(mt, "4AO005", po, "S1", Jan01, Jan20, Value(100), inward_qty, NoText), FALSE) :
        mt \in {RM, <<"S", "P", "M">>}, po \in {"PO1", "PO2"},
        inward_qty \in {Value(100), Value(50)}}

\* a run from the type selection to the aggregation on every table of at
\* most MaxLines lines of FilterLines
InitFilter ==
    /\ pc = "select"
    /\ file = NoFile
    /\ df_raw \in Tables(FilterLines)
    /\ selected_types = <<>>
    /\ df = <<>>
    /\ df_line = <<>>
    /\ df_po = <<>>
    /\ lead_time_rules = DEFAULT_RULES
    /\ lt_input = <<>>
    /\ notice = NoNotice
    /\ df_columns = <<>>
    /\ selected_year = NoValue
    /\ po_year = <<>>
    /\ monthly = <<>>
    /\ vendor_stats = <<>>
    /\ breaches = <<>>
    /\ top10 = <<>>
    /\ report = NoReport
    /\ data_file_loaded = (file # NoFile)
    /\ uploader_offered = FALSE

NextFilter ==
    \/ SelectMatTypes
    \/ EnsureTypes
    \/ MergeItemCategory
    \/ LeadTimeRules
    \/ LeadTimeStep
    \/ ComputePoLevelMetrics

SpecFilter == InitFilter /\ [][NextFilter]_vars

\* typed order lines for the category merge: a code the reference table
\* holds once, twice with one category, twice with two categories, not at
\* all, and a missing code; with an item-category cell that is missing,
\* filled or the empty text, or without the column
MergeCodes == {"4AO005", "4BT008G", "7PBB04-C", "ZZZ", NaN}
MergeCats == {NoText, <<"V", "i", "a", "l">>, <<>>}

MergeLine(i, code, cat, with_cat) ==
    SelectCols(RawLine(RM, code, PoNames[i], "S1", Date(2024, 1, 1), Date(2024, 1, 20), 100, 100, cat), with_cat)

\* tables of at most MaxLines lines, each line with its own PO number
MergeTables ==
    UNION {{[i \in 1..n |-> MergeLine(i, codes[i], cats[i], TRUE)] :
                codes \in [1..n -> MergeCodes], cats \in [1..n -> MergeCats]}
           \cup {[i \in 1..n |-> MergeLine(i, codes[i], NoText, FALSE)] :
                codes \in [1..n -> MergeCodes]} : n \in 1..MaxLines}

\* the category merge applied to every table of MergeTables
InitMerge ==
    /\ pc = "merge"
    /\ file = NoFile
    /\ df_raw = <<>>
    /\ selected_types = <<RM>>
    /\ df \in MergeTables
    /\ df_line = <<>>
    /\ df_po = <<>>
    /\ lead_time_rules = DEFAULT_RULES
    /\ lt_input = <<>>
    /\ notice = NoNotice
    /\ df_columns = <<>>
    /\ selected_year = NoValue
    /\ po_year = <<>>
    /\ monthly = <<>>
    /\ vendor_stats = <<>>
    /\ breaches = <<>>
    /\ top10 = <<>>
    /\ report = NoReport
    /\ data_file_loaded = (file # NoFile)
    /\ uploader_offered = FALSE

NextMerge == MergeItemCategory

SpecMerge == InitMerge /\ [][NextMerge]_vars

\* header texts: spellings of the material-code header, near misses of
\* it, other known headers and unknown headers with inner whitespace
HeaderBases ==
    {<<"M", "a", "t", "e", "r", "i", "a", "l", " ", "C", "o", "d", "e">>,
     <<"m", "a", "t", "e", "r", "i", "a", "l", " ", "c", "o", "d", "e">>,
     <<"M", "A", "T", "E", "R", "I", "A", "L", " ", " ", "C", "O", "D", "E">>,
     <<"M", "a", "t", "e", "r", "i", "a", "l", "-", "C", "o", "d", "e">>,
     <<"M", "a", "t", ".", "C", "o", "d", "e">>,
     <<"m", "a", "t", "e", "r", "i", "a", "l", "_", "c", "o", "d", "e">>,
     <<"M", "a", "t", "e", "r", "i", "a", "l", "NBSP", "C", "o", "d", "e">>,
     <<"M", "a", "t", "e", "r", "i", "a", "l", " ", "C", "o", "d", "e", " ", "2">>,
     <<"M", "a", "t", "e", "r", "i", "a", "l", " ", "C", "o", "d">>,
     <<"C", "o", "d", "e">>,
     <<"M", "a", "t", " ", "T", "y", "p", "e">>,
     <<"V", "e", "n", "d", "o", "r">>,
     <<"F", "o", "o">>,
     <<"F", "o", "o", " ", " ", "B", "a", "r">>,
     <<"F", "o", "o", "\t", "B", "a", "r">>,
     <<"F", "o", "o", "NBSP", "B", "a", "r">>,
     <<"R", "e", "m", "a", "r", "k", "s", " ", "1">>}

\* whitespace written around a header text
HeaderPads == {<<>>, <<" ">>, <<"NBSP">>, <<"\t", " ">>}

HeaderTexts == {l \o b \o r : l \in HeaderPads, b \in HeaderBases, r \in {<<>>, <<" ">>}}

\* the renaming applied to header rows of one or two columns
InitCols ==
    /\ pc = "rename"
    /\ file \in {[readable |-> TRUE, columns |-> cols, rows |-> <<>>] :
                  cols \in {<<h>> : h \in HeaderTexts}
                           \cup {<<COL_MAT_TYPE, h>> : h \in HeaderTexts}}
    /\ df_raw = <<>>
    /\ selected_types = <<>>
    /\ df = <<>>
    /\ df_line = <<>>
    /\ df_po = <<>>
    /\ lead_time_rules = DEFAULT_RULES
    /\ lt_input = <<>>
    /\ notice = NoNotice
    /\ df_columns = <<>>
    /\ selected_year = NoValue
    /\ po_year = <<>>
    /\ monthly = <<>>
    /\ vendor_stats = <<>>
    /\ breaches = <<>>
    /\ top10 = <<>>
    /\ report = NoReport
    /\ data_file_loaded = (file # NoFile)
    /\ uploader_offered = FALSE

NextCols == StandardizeColumnNames

SpecCols == InitCols /\ [][NextCols]_vars

\* order lines whose two dates and two quantities are, independently, a
\* value, an unparseable text or an empty cell
TypeLines ==
    {RawLine(RM, "4AO005", "PO1", "S1", po_dt, gnr_dt, po_qty, inward_qty, NoText) :
        po_dt \in {Jan01, BadText, Empty}, gnr_dt \in {Jan20, Empty},
        po_qty \in {Value(100), BadText}, inward_qty \in {Value(100), Value(90), Empty}}

\* the type step applied to every table of at most MaxLines lines of
\* TypeLines; df_raw keeps the table as it was handed to the step
InitTypes ==
    /\ pc = "types"
    /\ file = NoFile
    /\ df_raw \in Tables(TypeLines)
    /\ selected_types = <<RM>>
    /\ df = df_raw
    /\ df_line = <<>>
    /\ df_po = <<>>
    /\ lead_time_rules = DEFAULT_RULES
    /\ lt_input = <<>>
    /\ notice = NoNotice
    /\ df_columns = <<>>
    /\ selected_year = NoValue
    /\ po_year = <<>>
    /\ monthly = <<>>
    /\ vendor_stats = <<>>
    /\ breaches = <<>>
    /\ top10 = <<>>
    /\ report = NoReport
    /\ data_file_loaded = (file # NoFile)
    /\ uploader_offered = FALSE

NextTypes == EnsureTypes

SpecTypes == InitTypes /\ [][NextTypes]_vars

\* ---------------------------------------------------------------- claims
LinesOfPo(d, p) == {i \in DOMAIN d : d[i].po_no = p}

\* the summed (ordered, received) quantities of the lines of PO p that carry
\* material code m
PairQty(d, p, m) ==
    LET S == {i \in LinesOfPo(d, p) : d[i].material_code = m}
    IN <<SetSum([i \in DOMAIN d |-> d[i].po_qty], S),
         SetSum([i \in DOMAIN d |-> d[i].inward_qty], S)>>

PairInFull(d, p, m) == 20 * PairQty(d, p, m)[2] >= 19 * PairQty(d, p, m)[1]

\* C1: in the PO-level output, PO_Fulfilled = 1 exactly when every (PO number,
\* material code) pair of the PO - every material code its lines carry, a
\* missing code included - has summed inward quantity >= 95% of the summed PO
\* quantity.
C1_InFullIffEveryPair ==
    pc = "metrics_done" =>
        \A i \in DOMAIN df_po :
            (df_po[i].PO_Fulfilled = 1) <=>
                \A j \in LinesOfPo(df, df_po[i].po_no) :
                    PairInFull(df, df_po[i].po_no, df[j].material_code)

\* C2: in the PO-level output, OnTime = 1 exactly when every line of the PO
\* has GRN date <= its own PO date + its own lead time.
C2_OnTimeIffEveryLine ==
    pc = "metrics_done" =>
        \A i \in DOMAIN df_po :
            (df_po[i].OnTime = 1) <=>
                \A j \in LinesOfPo(df, df_po[i].po_no) :
                    /\ df[j].lead_time # NoValue
                    /\ df[j].gnr_dt <= df[j].po_dt + df[j].lead_time[1]

\* a PO of two lines with different lead times, one received on its due
\* date and one a day late, judged not on time
C2_Witness ==
    /\ pc = "metrics_done"
    /\ \E i \in DOMAIN df_po :
        /\ df_po[i].OnTime = 0
        /\ \E j, k \in LinesOfPo(df, df_po[i].po_no) :
            /\ df[j].gnr_dt = df[j].po_dt + df[j].lead_time[1]
            /\ df[k].gnr_dt = df[k].po_dt + df[k].lead_time[1] + 1
            /\ df[j].lead_time # df[k].lead_time

\* C3: OTIF, PO_Fulfilled and OnTime are 0 or 1 and OTIF = 1 exactly when
\* PO_Fulfilled = 1 and OnTime = 1.
C3_OtifIsAnd ==
    pc = "metrics_done" =>
        \A i \in DOMAIN df_po :
            /\ df_po[i].PO_Fulfilled \in {0, 1}
            /\ df_po[i].OnTime \in {0, 1}
            /\ df_po[i].OTIF \in {0, 1}
            /\ (df_po[i].OTIF = 1) <=> (df_po[i].PO_Fulfilled = 1 /\ df_po[i].OnTime = 1)

\* one output holding a PO that is in full but late (OTIF 0) and a PO that
\* is in full and on time (OTIF 1)
C3_Witness ==
    /\ pc = "metrics_done"
    /\ \E i, j \in DOMAIN df_po :
        /\ df_po[i].PO_Fulfilled = 1 /\ df_po[i].OnTime = 0 /\ df_po[i].OTIF = 0
        /\ df_po[j].PO_Fulfilled = 1 /\ df_po[j].OnTime = 1 /\ df_po[j].OTIF = 1

\* C4: the PO-level table has exactly one row per distinct PO number of the
\* input lines.
C4_OneRowPerPo ==
    pc = "metrics_done" =>
        /\ {df_po[i].po_no : i \in DOMAIN df_po} = {df[j].po_no : j \in DOMAIN df}
        /\ \A i, j \in DOMAIN df_po : df_po[i].po_no = df_po[j].po_no => i = j

\* two lines of one PO collapsed into one PO-level row
C4_Witness ==
    /\ pc = "metrics_done"
    /\ Len(df) = 2
    /\ df[1].po_no = df[2].po_no
    /\ Len(df_po) = 1

\* C5: the GRN date of a PO-level row is the maximum GRN date over the
\* lines of the PO, and Year, MonthNum and Month are the parts of that date.
C5_BucketByLastGrn ==
    pc = "metrics_done" =>
        \A i \in DOMAIN df_po :
            LET r == df_po[i]
                L == LinesOfPo(df, r.po_no)
            IN /\ \E j \in L : df[j].gnr_dt = r.gnr_dt
               /\ \A j \in L : df[j].gnr_dt <= r.gnr_dt
               /\ Date(r.Year, r.MonthNum, 1) <= r.gnr_dt
               /\ r.gnr_dt < Date(r.Year, r.MonthNum, 1) + DaysInMonth(r.Year, r.MonthNum)
               /\ r.Month = MonthAbbr[r.MonthNum]

\* a PO whose first line was received in January and whose second line was
\* received in February is bucketed into February
C5_Witness ==
    /\ pc = "metrics_done"
    /\ \E i \in DOMAIN df_po :
        /\ df_po[i].Month = "Feb"
        /\ df_po[i].MonthNum = 2
        /\ df_po[i].Year = 2024
        /\ \E j, k \in LinesOfPo(df, df_po[i].po_no) :
            j < k /\ MonthNumOf(df[j].gnr_dt) = 1 /\ MonthNumOf(df[k].gnr_dt) = 2

\* the material type of a row as the resolver compares it
TypeKey(r) == Upper(Strip(Str(r.mat_type)))

LeadTimeDone == pc \in {"metrics", "stopped"}

\* C6: without a PPM rule, a PPM row resolves to the day count of the bucket
\* that holds its trimmed category under case-insensitive exact match, and to
\* 30 when the category is empty or in no bucket; Vial gives 7, Ampoule 12.
C6_PpmByCategory ==
    LeadTimeDone =>
        \A i \in DOMAIN df :
            (TypeKey(df[i]) = PPM /\ PPM \notin DOMAIN lead_time_rules) =>
                LET cat == Strip(Str(df[i].item_cat))
                    holds(b) == \E k \in DOMAIN b.cats : Lower(b.cats[k]) = Lower(cat)
                IN /\ \A n \in DOMAIN PPM_CATEGORY_MAP :
                        holds(PPM_CATEGORY_MAP[n]) =>
                            df[i].lead_time = Some(PPM_CATEGORY_MAP[n].lt)
                   /\ (\A n \in DOMAIN PPM_CATEGORY_MAP : ~holds(PPM_CATEGORY_MAP[n])) =>
                            df[i].lead_time = Some(30)
                   /\ cat = <<"V", "i", "a", "l">> => df[i].lead_time = Some(7)
                   /\ cat = <<"A", "m", "p", "o", "u", "l", "e">> => df[i].lead_time = Some(12)
                   /\ cat = <<"V", "i", "a">> => df[i].lead_time = Some(30)
                   /\ cat = <<"V", "i", "a", "l", "s">> => df[i].lead_time = Some(30)
                   /\ cat = <<>> => df[i].lead_time = Some(30)

\* a padded lower-case "ppm" row with the padded category " vial " resolved
\* to 7 days under the default rules
C6_Witness ==
    /\ LeadTimeDone
    /\ lead_time_rules = DEFAULT_RULES
    /\ lt_input = <<>>
    /\ \E i \in DOMAIN df :
        /\ df[i].mat_type = <<" ", "p", "p", "m", " ">>
        /\ df[i].item_cat = <<" ", "v", "i", "a", "l", " ">>
        /\ df[i].lead_time = Some(7)

\* C7: a row whose trimmed, upper-cased material type is a key of the rule
\* set resolves to that key's value whatever its item category; under the
\* default rules RM resolves to 30.
C7_RuleKeyWins ==
    LeadTimeDone =>
        \A i \in DOMAIN df :
            TypeKey(df[i]) \in DOMAIN lead_time_rules =>
                /\ df[i].lead_time = Some(lead_time_rules[TypeKey(df[i])])
                /\ (lead_time_rules = DEFAULT_RULES /\ TypeKey(df[i]) = <<"R", "M">>) =>
                        df[i].lead_time = Some(30)

\* a row whose type is a key of a rule set with a PPM rule and whose
\* category is a member of the 7-day bucket takes the rule's 20 days
C7_Witness ==
    /\ LeadTimeDone
    /\ PPM \in DOMAIN lead_time_rules
    /\ \E i \in DOMAIN df :
        /\ TypeKey(df[i]) = PPM
        /\ df[i].item_cat = <<"V", "i", "a", "l">>
        /\ df[i].lead_time = Some(20)

\* the rows of the working table that carry a Lead Time column
WithLeadTime == {i \in DOMAIN df : "lead_time" \in DOMAIN df[i]}

\* C8: a row without a lead time after the lead-time step makes the page
\* report an error and stop; the aggregator never runs on such a table.
C8_NoAggregationWithoutLeadTime ==
    /\ \A i \in WithLeadTime :
        df[i].lead_time = NoValue =>
            /\ pc = "stopped"
            /\ notice.level = "error"
            /\ df[i].mat_type \in notice.about
    /\ pc \in {"metrics", "metrics_done", "exception"} =>
        \A i \in DOMAIN df : df[i].lead_time # NoValue

\* the page stopped with the lead-time error on a row without a lead time
C8_Witness ==
    /\ pc = "stopped"
    /\ notice.level = "error"
    /\ notice.msg = "Lead Time missing for Mat Types"
    /\ \E i \in WithLeadTime : df[i].lead_time = NoValue
    /\ df_po = <<>>

\* C9: every row whose label needs a lead time from the sidebar (not a
\* default rule, not PPM) resolves to the value entered for that label.
C9_UnknownTypeTakesItsInput ==
    \A i \in WithLeadTime :
        IsUnknown(Str(df[i].mat_type)) =>
            /\ Str(df[i].mat_type) \in DOMAIN lt_input
            /\ df[i].lead_time = Some(lt_input[Str(df[i].mat_type)])

\* the required columns that no header of the sheet is renamed to
AbsentCols ==
    LET renamed == [i \in DOMAIN file.columns |-> canon(file.columns[i])]
    IN {c \in Range(REQUIRED_COLS) : \A i \in DOMAIN renamed : renamed[i] # c}

\* C10: when a required canonical column is absent after normalization the
\* load fails with an error naming the missing columns, the page stops and
\* no later stage has run.
C10_MissingColumnStopsRun ==
    (file.readable /\ AbsentCols # {} /\ pc # "load") =>
        /\ pc = "stopped"
        /\ notice.level = "error"
        /\ notice.about = AbsentCols
        /\ df_raw = <<>> /\ selected_types = <<>> /\ df = <<>>
        /\ df_line = <<>> /\ df_po = <<>>
        /\ lead_time_rules = DEFAULT_RULES /\ lt_input = <<>>

\* the sheet with the headers "Unit" and "P O Num" stopped with an error
\* naming UOM and P. O. No.
C10_Witness ==
    /\ pc = "stopped"
    /\ file.columns = HeadersNearMiss
    /\ notice.level = "error"
    /\ notice.about = {COL_UOM, COL_PO_NO}


\* the four cells of a raw line that ensure_types_and_drop_nulls converts
Parses(r) ==
    /\ r.po_dt.kind = "value"
    /\ r.gnr_dt.kind = "value"
    /\ r.po_qty.kind = "value"
    /\ r.inward_qty.kind = "value"

\* the k-th smallest element of a set of indices
Nth(S, k) == CHOOSE i \in S : Cardinality({j \in S : j <= i}) = k

\* C11: after the type step the table holds exactly the input lines whose
\* PO date, GRN date, ordered quantity and received quantity all parse, in
\* their input order and with their parsed values; every other line is
\* gone, no line is added, and the step raises nothing
C11_KeepsExactlyParsedLines ==
    pc # "types" =>
        LET kept == {i \in DOMAIN df_raw : Parses(df_raw[i])}
        IN /\ pc \in {"merge", "stopped"}
           /\ Len(df) = Cardinality(kept)
           /\ \A k \in DOMAIN df :
                LET r == df_raw[Nth(kept, k)]
                IN df[k] = RawLine(r.mat_type, r.material_code, r.po_no, r.supplier,
                                   r.po_dt.v, r.gnr_dt.v, r.po_qty.v, r.inward_qty.v,
                                   r.item_cat)

\* a table of two lines, one of which does not parse, has gone through the
\* type step
C11_Witness ==
    /\ pc = "merge"
    /\ df_raw \in Tables(TypeLines)
    /\ Len(df_raw) = 2
    /\ Len(df) = 1
    /\ ~Parses(df_raw[1])

\* the comparison key of a header: its letters and digits, lower-cased
ComparisonKey(h) ==
    Lower(SelectSeq(h, LAMBDA c : c \in Range(LowerLetters) \cup Range(UpperLetters) \cup Digits))

MaterialCodeKeys ==
    {<<"m", "a", "t", "e", "r", "i", "a", "l", "c", "o", "d", "e">>,
     <<"m", "a", "t", "c", "o", "d", "e">>,
     <<"m", "a", "t", "e", "r", "i", "a", "l", "_", "c", "o", "d", "e">>}

AllSynonymKeys == UNION {Synonyms[i].keys : i \in DOMAIN Synonyms}

\* C12: a header is renamed to "Material Code" exactly when its comparison
\* key is one of that column's synonyms, and a header whose key is in no
\* synonym set is not renamed to any canonical name
C12_MaterialCodeIffSynonym ==
    pc = "renamed" =>
        \A i \in DOMAIN file.columns :
            /\ df_columns[i] = COL_MATERIAL_CODE
                    <=> ComparisonKey(file.columns[i]) \in MaterialCodeKeys
            /\ ComparisonKey(file.columns[i]) \notin AllSynonymKeys
                    => df_columns[i] \notin Range(REQUIRED_COLS) \cup {COL_ITEM_CAT}

\* an upper-case spelling of the header has been renamed to "Material Code"
C12_Witness ==
    /\ pc = "renamed"
    /\ \E i \in DOMAIN file.columns :
        /\ file.columns[i] # COL_MATERIAL_CODE
        /\ Upper(file.columns[i]) = file.columns[i]
        /\ df_columns[i] = COL_MATERIAL_CODE

\* C13 as stated: a header whose key is in no synonym set comes back
\* with the whitespace cleanup applied, and no column is discarded
C13_UnmappedHeaderCleaned ==
    pc = "renamed" =>
        /\ Len(df_columns) = Len(file.columns)
        /\ \A i \in DOMAIN file.columns :
            ComparisonKey(file.columns[i]) \notin AllSynonymKeys
                => df_columns[i] = CleanHeader(file.columns[i])

\* C13 as amended: a header whose key is in no synonym set comes back
\* exactly as it was given, whitespace included, and no column is
\* discarded
C13_UnmappedHeaderKept ==
    pc = "renamed" =>
        /\ Len(df_columns) = Len(file.columns)
        /\ \A i \in DOMAIN file.columns :
            ComparisonKey(file.columns[i]) \notin AllSynonymKeys
                => df_columns[i] = file.columns[i]

\* an unknown header with whitespace to clean has been through the renaming
C13_Witness ==
    /\ pc = "renamed"
    /\ \E i \in DOMAIN file.columns :
        /\ ComparisonKey(file.columns[i]) \notin AllSynonymKeys
        /\ CleanHeader(file.columns[i]) # file.columns[i]
        /\ df_columns[i] = file.columns[i]

\* the categories the reference table holds for a material code
RefCats(code) == {df1[j].item_cat : j \in {k \in DOMAIN df1 : df1[k].material_code = code}}

\* the rows of table d that carry PO number p
RowsOf(d, p) == {j \in DOMAIN d : d[j].po_no = p}

\* C14: when the table handed to the merge has an item-category column,
\* every line whose category is not missing is still there with that
\* category, and a line whose category is missing carries a category of
\* the reference table for its material code (the empty text when the
\* table has none)
C14_ExistingCategoryWins ==
    [][(MergeItemCategory /\ "item_cat" \in DOMAIN df[1]) =>
        \A i \in DOMAIN df :
            /\ RowsOf(df', df[i].po_no) # {}
            /\ \A j \in RowsOf(df', df[i].po_no) :
                /\ df[i].item_cat # NoText => df'[j].item_cat = df[i].item_cat
                /\ df[i].item_cat = NoText =>
                      IF RefCats(df[i].material_code) = {}
                      THEN df'[j].item_cat = <<>>
                      ELSE df'[j].item_cat \in RefCats(df[i].material_code)]_vars

\* a merged table holds a line that kept a category differing from the
\* reference table's and a line that took the reference table's
C14_Witness ==
    /\ pc = "rules"
    /\ \E j \in DOMAIN df :
        /\ df[j].material_code = "4AO005"
        /\ df[j].item_cat = <<"V", "i", "a", "l">>
    /\ \E j \in DOMAIN df :
        /\ df[j].material_code = "4BT008G"
        /\ df[j].item_cat = <<"S", "e", "a", "l">>

\* C15: after the merge every line has an item category that is not
\* missing, and a line whose material code the reference table does not
\* hold and that brought no category of its own has the empty text,
\* whether or not the table came with an item-category column
C15_CategoryNeverNull ==
    [][MergeItemCategory =>
        /\ \A j \in DOMAIN df' :
            /\ "item_cat" \in DOMAIN df'[j]
            /\ df'[j].item_cat # NoText
        /\ \A i \in DOMAIN df :
            (/\ RefCats(df[i].material_code) = {}
             /\ ("item_cat" \in DOMAIN df[i] => df[i].item_cat = NoText))
                => /\ RowsOf(df', df[i].po_no) # {}
                   /\ \A j \in RowsOf(df', df[i].po_no) : df'[j].item_cat = <<>>]_vars

\* a merged table holds a line with an unmatched code and the empty
\* category next to a line that took a category of the reference table
C15_Witness ==
    /\ pc = "rules"
    /\ \E j \in DOMAIN df : df[j].material_code = "ZZZ" /\ df[j].item_cat = <<>>
    /\ \E j \in DOMAIN df : df[j].material_code = "7PBB04-C" /\ df[j].item_cat # <<>>

\* the fraction a equals n / d
IsFrac(a, n, d) == a.den # 0 /\ d # 0 /\ a.num * d = n * a.den

\* the sum of the integers f[1] .. f[n]
RECURSIVE SeqSum(_, _)
SeqSum(f, n) == IF n = 0 THEN 0 ELSE f[n] + SeqSum(f, n - 1)

\* the sum of the fractions f[1] .. f[n]
RECURSIVE FracSum(_, _)
FracSum(f, n) ==
    IF n = 0 THEN Frac(0, 1)
    ELSE LET r == FracSum(f, n - 1)
         IN Frac(r.num * f[n].den + f[n].num * r.den, r.den * f[n].den)

\* the label a supplier value bears in the vendor summary
SupplierLabel(k) == IF k = NaN THEN "Unknown Supplier" ELSE k

\* the rows of the PO table that belong to the selected year
InYear == {i \in DOMAIN df_po : df_po[i].Year = selected_year[1]}

\* C16: every row of the vendor summary is the row of a supplier of the
\* selected year: it bears that supplier's label, Total_Orders is the
\* number of the supplier's POs in the year, OTIF_Failures the number of
\* them with OTIF = 0, OTIF_Success the number with OTIF = 1; the two add
\* up to Total_Orders; Vendor_OTIF_pct is OTIF_Success / Total_Orders x 100,
\* which is 75 for 3 successes of 4 orders
C16_VendorRowCounts ==
    pc = "vendor" =>
        \A j \in DOMAIN vendor_stats :
            LET v == vendor_stats[j]
            IN /\ \E k \in {df_po[i].supplier : i \in InYear} :
                    LET mine == {i \in InYear : df_po[i].supplier = k}
                    IN /\ v.supplier = SupplierLabel(k)
                       /\ v.Total_Orders = Cardinality(mine)
                       /\ v.OTIF_Failures = Cardinality({i \in mine : df_po[i].OTIF = 0})
                       /\ v.OTIF_Success = Cardinality({i \in mine : df_po[i].OTIF = 1})
               /\ v.OTIF_Failures + v.OTIF_Success = v.Total_Orders
               /\ IsFrac(v.Vendor_OTIF_pct, v.OTIF_Success * 100, v.Total_Orders)
               /\ (v.OTIF_Success = 3 /\ v.Total_Orders = 4)
                    => IsFrac(v.Vendor_OTIF_pct, 75, 1)

\* the vendor summary holds a supplier with 3 successes of 4 orders
C16_Witness ==
    /\ pc = "vendor"
    /\ \E j \in DOMAIN vendor_stats :
        /\ vendor_stats[j].OTIF_Success = 3
        /\ vendor_stats[j].Total_Orders = 4
        /\ vendor_stats[j].OTIF_Failures = 1

\* C17: Total_Contribution_pct of a vendor row is its Total_Orders divided
\* by the number of POs of the selected year, times 100; the Total_Orders
\* of all rows add up to that number of POs and the contributions add up
\* to 100
C17_ContributionsAddUp ==
    pc = "vendor" =>
        /\ \A j \in DOMAIN vendor_stats :
            IsFrac(vendor_stats[j].Total_Contribution_pct,
                   vendor_stats[j].Total_Orders * 100, Cardinality(InYear))
        /\ SeqSum([j \in DOMAIN vendor_stats |-> vendor_stats[j].Total_Orders],
                  Len(vendor_stats)) = Cardinality(InYear)
        /\ IsFrac(FracSum([j \in DOMAIN vendor_stats |->
                            vendor_stats[j].Total_Contribution_pct], Len(vendor_stats)),
                  100, 1)

\* a year of three POs of three suppliers, one PO of another year left out
C17_Witness ==
    /\ pc = "vendor"
    /\ Len(vendor_stats) = 3
    /\ Cardinality(InYear) = 3
    /\ Len(df_po) = 4

\* C18: the POs of the selected year without a supplier are counted in a
\* row labelled "Unknown Supplier", every PO of the year is counted in
\* exactly one row, and no two rows bear the same supplier label
C18_OneRowPerSupplierLabel ==
    pc = "vendor" =>
        /\ (\E i \in InYear : df_po[i].supplier = NaN) =>
                \E j \in DOMAIN vendor_stats :
                    /\ vendor_stats[j].supplier = "Unknown Supplier"
                    /\ vendor_stats[j].Total_Orders >=
                            Cardinality({i \in InYear : df_po[i].supplier = NaN})
        /\ SeqSum([j \in DOMAIN vendor_stats |-> vendor_stats[j].Total_Orders],
                  Len(vendor_stats)) = Cardinality(InYear)
        /\ \A i \in InYear : \E j \in DOMAIN vendor_stats :
                vendor_stats[j].supplier = SupplierLabel(df_po[i].supplier)
        /\ \A j1, j2 \in DOMAIN vendor_stats :
                vendor_stats[j1].supplier = vendor_stats[j2].supplier => j1 = j2

\* C19: the monthly summary has one row for every month that holds a PO
\* of the selected year and no other row, in ascending month number; a
\* row's Total_Orders is the number of the year's POs of that month, its
\* three averages are the means of OTIF, OnTime and PO_Fulfilled over
\* them, and the Total_Orders of the rows add up to the POs of the year
C19_MonthlyRows ==
    pc \in {"monthly", "vendor"} =>
        /\ {monthly[j].MonthNum : j \in DOMAIN monthly} = {df_po[i].MonthNum : i \in InYear}
        /\ \A j1, j2 \in DOMAIN monthly :
                j1 < j2 => monthly[j1].MonthNum < monthly[j2].MonthNum
        /\ \A j \in DOMAIN monthly :
            LET mine == {i \in InYear : df_po[i].MonthNum = monthly[j].MonthNum}
                n == Cardinality(mine)
            IN /\ monthly[j].Total_Orders = n
               /\ monthly[j].Month = MonthAbbr[monthly[j].MonthNum]
               /\ IsFrac(monthly[j].Avg_OTIF,
                         Cardinality({i \in mine : df_po[i].OTIF = 1}), n)
               /\ IsFrac(monthly[j].Avg_OnTime,
                         Cardinality({i \in mine : df_po[i].OnTime = 1}), n)
               /\ IsFrac(monthly[j].Avg_InFull,
                         Cardinality({i \in mine : df_po[i].PO_Fulfilled = 1}), n)
        /\ SeqSum([j \in DOMAIN monthly |-> monthly[j].Total_Orders], Len(monthly))
                = Cardinality(InYear)

\* a monthly summary of two months, one of them with two POs of which one
\* is on time and in full
C19_Witness ==
    /\ pc = "monthly"
    /\ Len(monthly) = 2
    /\ \E j \in DOMAIN monthly :
        /\ monthly[j].Total_Orders = 2
        /\ IsFrac(monthly[j].Avg_OTIF, 1, 2)

\* C20: a run on a sheet that passed the column check never ends in an
\* exception that nothing catches: it goes on to the summaries or stops
\* with a message shown
C20_NoUnhandledException == pc # "exception"

\* C21: when the vendor summary is about to be computed and after it has
\* been, the selected year is the year of a PO row and the POs of that
\* year are not empty; so the divisor of Total_Contribution_pct is their
\* number, not the fallback 1 of an empty year, and every vendor row has
\* Total_Orders > 0 as the divisor of its Vendor_OTIF_pct
C21_YearNeverEmpty ==
    pc \in {"year", "monthly", "vendor"} =>
        /\ selected_year # NoValue
        /\ selected_year[1] \in {df_po[i].Year : i \in DOMAIN df_po}
        /\ po_year # <<>>
        /\ Len(po_year) = Cardinality(InYear)
        /\ pc = "vendor" =>
            \A j \in DOMAIN vendor_stats :
                /\ vendor_stats[j].Total_Orders > 0
                /\ vendor_stats[j].Vendor_OTIF_pct.den = vendor_stats[j].Total_Orders
                /\ vendor_stats[j].Total_Contribution_pct.den = Len(po_year)

\* the vendor summary of a year that holds only some of the POs: the
\* other year could have been selected as well
C21_Witness ==
    /\ pc = "vendor"
    /\ Len(po_year) = 1
    /\ Len(df_po) = 3
    /\ vendor_stats[1].Total_Contribution_pct = Frac(100, 1)

\* C22: a stopped run has shown a message; a type filter or a type step
\* that leaves no line, and a PO table without rows, stop the run with a
\* warning or an error and without an exception; a year without a failed
\* PO gets an empty top-10 table and the run goes on to the downloads
C22_EmptyResultsAreBranches ==
    [][/\ pc' = "stopped" => notice'.level \in {"warning", "error", "info"}
       /\ (pc = "select" /\ FilterTypes(df_raw, selected_types') = <<>>)
            => (pc' = "stopped" /\ notice'.level = "warning")
       /\ (pc = "types" /\ \A i \in DOMAIN df : ~Parses(df[i]))
            => (pc' = "stopped" /\ notice'.level = "warning")
       /\ (pc = "metrics_done" /\ df_po = <<>>)
            => (pc' = "stopped" /\ notice'.level = "warning")
       /\ (pc = "vendor" /\ \A i \in DOMAIN po_year : po_year[i].OTIF # 0)
            => (pc' = "top10" /\ top10' = <<>> /\ notice'.level = "success")
       /\ (pc = "top10" /\ \A i \in DOMAIN po_year : po_year[i].OTIF # 0)
            => (pc' = "done" /\ report' = NoReport)]_vars

\* a run whose year has no failed PO has shown the empty top-10 table
\* and reached the downloads
C22_Witness ==
    /\ pc = "done"
    /\ po_year # <<>>
    /\ breaches = <<>>
    /\ top10 = <<>>
    /\ report = NoReport

\* the lower-cased members of a bucket
BucketKeys(b) == {Lower(b.cats[k]) : k \in DOMAIN b.cats}

\* the day count of the first bucket, in the order given, that holds the
\* lower-cased category low; 30 when none does
RECURSIVE FirstMatch(_, _)
FirstMatch(buckets, low) ==
    IF buckets = <<>> THEN 30
    ELSE IF low \in BucketKeys(Head(buckets)) THEN Head(buckets).lt
    ELSE FirstMatch(Tail(buckets), low)

\* C23: no two of the four PPM buckets share a member under
\* case-insensitive comparison, and the lead time a PPM row got is the one
\* found with the buckets tried in any other order
C23_BucketOrderIrrelevant ==
    /\ \A m, n \in DOMAIN PPM_CATEGORY_MAP :
            m # n => BucketKeys(PPM_CATEGORY_MAP[m]) \cap BucketKeys(PPM_CATEGORY_MAP[n]) = {}
    /\ LeadTimeDone =>
        \A i \in DOMAIN df :
            (TypeKey(df[i]) = PPM /\ PPM \notin DOMAIN lead_time_rules
                /\ Strip(Str(df[i].item_cat)) # <<>>) =>
                \A order \in Permutations(DOMAIN PPM_CATEGORY_MAP) :
                    df[i].lead_time =
                        Some(FirstMatch([n \in DOMAIN PPM_CATEGORY_MAP |->
                                            PPM_CATEGORY_MAP[order[n]]],
                                        Lower(Strip(Str(df[i].item_cat)))))

\* a PPM row with a category of the second bucket has its lead time
C23_Witness ==
    /\ LeadTimeDone
    /\ PPM \notin DOMAIN lead_time_rules
    /\ \E i \in DOMAIN df :
        /\ df[i].mat_type = <<"P", "p", "m">>
        /\ df[i].item_cat = <<"a", "m", "p">>
        /\ df[i].lead_time = Some(12)

\* the first line, in input order, of PO p
FirstLine(p) == df[SetMin({i \in DOMAIN df : df[i].po_no = p})]

\* C24: the PO table has one row per PO and it carries the supplier of
\* the PO's first line; in the vendor summary every supplier that is the
\* first-line supplier of some PO has one row whose Total_Orders is the
\* number of those POs, and there is no other row, so a PO is counted
\* under its first line's supplier only
C24_FirstLineSupplier ==
    pc \in {"vendor", "top10", "done"} =>
        LET pos == {df[i].po_no : i \in DOMAIN df}
            firsts == {FirstLine(p).supplier : p \in pos}
        IN /\ \A p \in pos :
                \E i \in DOMAIN df_po :
                    /\ df_po[i].po_no = p
                    /\ df_po[i].supplier = FirstLine(p).supplier
                    /\ \A j \in DOMAIN df_po : df_po[j].po_no = p => j = i
           /\ Len(vendor_stats) = Cardinality(firsts)
           /\ \A k \in firsts :
                \E j \in DOMAIN vendor_stats :
                    /\ vendor_stats[j].supplier = SupplierLabel(k)
                    /\ vendor_stats[j].Total_Orders =
                            Cardinality({p \in pos : FirstLine(p).supplier = k})

\* a PO whose two lines name S1 first and S2 second has been counted: the
\* vendor summary has the single row of S1
C24_Witness ==
    /\ pc = "vendor"
    /\ Len(df) = 2
    /\ df[1].po_no = df[2].po_no
    /\ df[1].supplier = "S1"
    /\ df[2].supplier = "S2"
    /\ Len(vendor_stats) = 1
    /\ vendor_stats[1].supplier = "S1"

\* the sum of a quantity column over the lines of d with PO number p and
\* material code m
QtyOfPair(d, col, p, m) ==
    SetSum([i \in DOMAIN d |-> col[i]],
           {i \in DOMAIN d : d[i].po_no = p /\ d[i].material_code = m})

\* C25: the category merge returns one line per line handed to it, in the
\* same order and with the same PO number, material code and quantities,
\* so the line count and the summed ordered and received quantities of
\* every (PO number, material code) pair are unchanged
C25_MergeKeepsLineCount ==
    [][MergeItemCategory =>
        /\ Len(df') = Len(df)
        /\ \A i \in DOMAIN df :
            \A j \in DOMAIN df :
                LET p == df[i].po_no
                    m == df[j].material_code
                IN /\ QtyOfPair(df', [n \in DOMAIN df' |-> df'[n].po_qty], p, m)
                        = QtyOfPair(df, [n \in DOMAIN df |-> df[n].po_qty], p, m)
                   /\ QtyOfPair(df', [n \in DOMAIN df' |-> df'[n].inward_qty], p, m)
                        = QtyOfPair(df, [n \in DOMAIN df |-> df[n].inward_qty], p, m)]_vars

\* how often PO number p is listed in the failed-orders report
TimesListed(p) ==
    SeqSum([j \in DOMAIN report.vendors |->
                Cardinality({n \in DOMAIN report.vendors[j].orders :
                                report.vendors[j].orders[n] = p})],
           Len(report.vendors))

\* C26: the failed-orders PDF lists every PO of the selected year with
\* OTIF = 0 exactly once and no other PO, and under every vendor header the
\* number of listed orders is the OTIF_Failures count of the header, also
\* when the supplier of a failed PO is missing
C26_ReportListsEveryFailure ==
    (pc = "done" /\ report.kind = "pdf") =>
        /\ \A i \in DOMAIN po_year :
                TimesListed(po_year[i].po_no) = IF po_year[i].OTIF = 0 THEN 1 ELSE 0
        /\ \A j \in DOMAIN report.vendors :
                Len(report.vendors[j].orders) = report.vendors[j].failures

\* the lines of the loaded table whose material type is selected
SelectedLines == {i \in DOMAIN df_raw : df_raw[i].mat_type \in Range(selected_types)}

\* C27: the PO table is built from the selected lines alone: a PO has a
\* row exactly when one of its lines has a selected type, it is in full
\* when the summed received quantity of its selected lines reaches 95% of
\* their summed ordered quantity, and on time when every selected line
\* arrived within the lead time of its type (RM 30 days, SPM 15)
C27_FilterBeforeAggregation ==
    pc = "metrics_done" =>
        /\ {df_po[i].po_no : i \in DOMAIN df_po} = {df_raw[i].po_no : i \in SelectedLines}
        /\ \A i \in DOMAIN df_po :
            LET mine == {n \in SelectedLines : df_raw[n].po_no = df_po[i].po_no}
                ordered == SetSum([n \in DOMAIN df_raw |-> df_raw[n].po_qty.v], mine)
                received == SetSum([n \in DOMAIN df_raw |-> df_raw[n].inward_qty.v], mine)
                days(n) == IF df_raw[n].mat_type = RM THEN 30 ELSE 15
            IN /\ df_po[i].PO_Fulfilled = 1 <=> 20 * received >= 19 * ordered
               /\ df_po[i].OnTime = 1 <=>
                    \A n \in mine : df_raw[n].gnr_dt.v <= df_raw[n].po_dt.v + days(n)

\* a PO with a full RM line and a half-delivered, late SPM line was
\* aggregated with only RM selected: it is in full and on time
C27_Witness ==
    /\ pc = "metrics_done"
    /\ selected_types = <<RM>>
    /\ Len(df_raw) = 2
    /\ df_raw[1].po_no = df_raw[2].po_no
    /\ df_raw[1].mat_type = RM
    /\ df_raw[1].inward_qty = Value(100)
    /\ df_raw[2].mat_type # RM
    /\ df_raw[2].inward_qty = Value(50)
    /\ Len(df_po) = 1
    /\ df_po[1].OTIF = 1

\* the lines of df in the order given by a permutation of their indices
Permuted(order) == [i \in DOMAIN df |-> df[order[i]]]

\* C28: the aggregation of the same lines in any other order gives every
\* PO number the same PO_Fulfilled, OnTime, OTIF and bucketing GRN date
\* (with year and month), and fails exactly when this one fails
C28_OrderIndependent ==
    /\ pc = "metrics_done" =>
        \A order \in Permutations(DOMAIN df) :
            /\ ~MetricsRaises(Permuted(order))
            /\ LET other == DfPo(Permuted(order))
               IN /\ Len(other) = Len(df_po)
                  /\ \A i \in DOMAIN df_po :
                        \E j \in DOMAIN other :
                            /\ other[j].po_no = df_po[i].po_no
                            /\ other[j].PO_Fulfilled = df_po[i].PO_Fulfilled
                            /\ other[j].OnTime = df_po[i].OnTime
                            /\ other[j].OTIF = df_po[i].OTIF
                            /\ other[j].gnr_dt = df_po[i].gnr_dt
                            /\ other[j].Year = df_po[i].Year
                            /\ other[j].MonthNum = df_po[i].MonthNum
    /\ pc = "exception" =>
        \A order \in Permutations(DOMAIN df) : MetricsRaises(Permuted(order))

\* two lines of one PO with different lead times and GRN dates, the
\* later line first, have been aggregated
C28_Witness ==
    /\ pc = "metrics_done"
    /\ Len(df) = 2
    /\ df[1].po_no = df[2].po_no
    /\ df[1].lead_time # df[2].lead_time
    /\ df[1].gnr_dt > df[2].gnr_dt

\* the failed POs of the selected year whose supplier cell is k
FailuresOf(k) == Cardinality({i \in DOMAIN po_year : po_year[i].supplier = k /\ po_year[i].OTIF = 0})

\* the supplier keys of the year that have no row in the top-10 table
LeftOut ==
    {k \in {po_year[i].supplier : i \in DOMAIN po_year} :
        \A j \in DOMAIN top10 : top10[j].supplier # SupplierLabel(k)}

\* C29: the top-10 table holds only suppliers with failures, at most ten,
\* in non-increasing order of their failures in the year; no supplier
\* left out has more failures than one shown; it is empty exactly when
\* no PO of the year failed
C29_TopTenBreaches ==
    pc \in {"top10", "done"} =>
        /\ Len(top10) <= 10
        /\ \A j \in DOMAIN top10 :
              /\ top10[j].OTIF_Failures > 0
              /\ \E k \in {po_year[i].supplier : i \in DOMAIN po_year} :
                    /\ SupplierLabel(k) = top10[j].supplier
                    /\ FailuresOf(k) = top10[j].OTIF_Failures
        /\ \A j \in DOMAIN top10 : \A h \in DOMAIN top10 :
              j < h => top10[j].OTIF_Failures >= top10[h].OTIF_Failures
        /\ \A k \in LeftOut : \A j \in DOMAIN top10 :
              FailuresOf(k) <= top10[j].OTIF_Failures
        /\ (top10 = <<>>) <=> (\A i \in DOMAIN po_year : po_year[i].OTIF # 0)

\* eleven suppliers failed, one of them twice; ten are shown and the one
\* left out failed once
C29_Witness ==
    /\ pc = "top10"
    /\ Len(top10) = 10
    /\ top10[1].OTIF_Failures = 2
    /\ \E k \in LeftOut : FailuresOf(k) = 1

\* C30: across the runs of a session the flag data_file_loaded is set
\* only with a sheet in session state; a sheet once held is the sheet
\* every later step and run works on, whatever is put in the uploader;
\* and a run that starts with the flag set does not offer the uploader
C30_StoredFileKept ==
    [][/\ data_file_loaded' => file' # NoFile
       /\ file # NoFile => file' = file
       /\ (pc \in RunEnded /\ data_file_loaded) => ~uploader_offered']_vars

\* a later run of a session that holds a sheet is about to load it, and
\* did not offer the uploader
C30_Witness ==
    /\ pc = "load"
    /\ data_file_loaded
    /\ file # NoFile
    /\ ~uploader_offered

====
